---- MODULE Spec2Model ----
(***************************************************************************)
(* The Vibe10X monitoring engine (hammerspoon/voicenudge-menu.lua, the     *)
(* vibe10x module): the keystroke counter, the focused application, the    *)
(* inactivity timer, the three subscriptions (key event tap, application   *)
(* watcher, config-file watcher) and the configuration it loads from       *)
(* ~/.vibe10x/config.json.  Every handler of the engine is one action; the *)
(* handlers are written as operators over a record of the engine's locals  *)
(* so that a handler that calls another one (reload = stop, loadConfig,    *)
(* start) is the composition the source writes.                            *)
(***************************************************************************)
EXTENDS Integers, Sequences, FiniteSets, TLC

VARIABLES
    config,              \* local config: the in-memory configuration table
    keystrokeCount,      \* local keystrokeCount
    currentApp,          \* local currentApp (None is Lua's nil)
    isMonitoring,        \* local isMonitoring
    monitoredAppsCache,  \* local monitoredAppsCache
    eventTap,            \* number of started key event taps
    appWatcher,          \* number of started application watchers
    configWatcher,       \* number of started config-file watchers
    inactivityTimer,     \* the timer object the local refers to: "nil", "pending", "dead"
    orphanTimers,        \* scheduled timers that no local refers to any more
    onCountUpdate,       \* vibe10x.onCountUpdate is set (the menu bar module registered)
    menuBar,             \* number of menu bar items the menu bar module has made and not deleted
    emitted,             \* what the last handler sent out: notifications, alerts, speech, log lines
    file,                \* ~/.vibe10x/config.json
    fileChanged,         \* a change of config.json the path watcher has not delivered yet
    frontApp,            \* the application that is really frontmost
    pendingFocus,        \* focus events the application watcher has not delivered yet
    defaults,            \* local DEFAULT_CONFIG: the table, which the code can write through config
    shared,              \* the tables of config that are tables of DEFAULT_CONFIG (paths; <<"*">> is config itself)
    configOps,           \* calls made so far of the operations that edit the configuration
    libCall,             \* the call of a pure function being made, with its arguments
    libResult            \* what that call returned or threw

vars == <<config, keystrokeCount, currentApp, isMonitoring, monitoredAppsCache,
          eventTap, appWatcher, configWatcher, inactivityTimer, orphanTimers,
          onCountUpdate, menuBar, emitted, file, fileChanged, frontApp, pendingFocus,
          defaults, shared, configOps, libCall, libResult>>

----------------------------------------------------------------------------
(* Bounds of the model *)

\* thresholds a persisted document can carry are 0 .. MaxThreshold
MaxThreshold == 2

\* calls of the operations that edit the configuration in one behaviour
MaxConfigOps == 1

\* how far around each limit of a range the numbers given to the clamps go
Margin == 2

----------------------------------------------------------------------------
(* Constants of the program *)

None == "<nil>"

CategoryIds == {"devTools", "communication"}

CATEGORIES ==
    [devTools |->
        [name |-> "Dev Tools",
         description |-> "Code editors, IDEs, and terminals",
         apps |-> <<"Code", "Code - Insiders", "Cursor", "Zed", "Conductor",
                    "Terminal", "iTerm2", "Warp", "Alacritty", "kitty", "Hyper",
                    "IntelliJ IDEA", "WebStorm", "PyCharm", "Android Studio",
                    "Xcode", "Sublime Text", "Atom", "Nova", "BBEdit">>],
     communication |->
        [name |-> "Communication",
         description |-> "Messaging and chat apps",
         apps |-> <<"WhatsApp", "Signal", "Telegram", "Slack", "Discord",
                    "Messages", "Microsoft Teams", "Zoom">>]]

DEFAULT_CONFIG ==
    [enabled |-> TRUE,
     threshold |-> 50,
     resetAfterSeconds |-> 30,
     alertDurationSeconds |-> 2,
     alertMessage |-> "Use your voice!",
     voice |-> [enabled |-> FALSE],
     categories |-> [devTools |-> [enabled |-> TRUE],
                     communication |-> [enabled |-> FALSE]],
     customApps |-> [enabled |-> TRUE, apps |-> <<>>],
     menuBar |-> [showCount |-> FALSE, icon |-> "10X"]]

\* the keys of DEFAULT_CONFIG whose value is a table
TableKeys == {"voice", "categories", "customApps", "menuBar"}

ignoredKeyCodes ==
    {123, 124, 125, 126, 115, 119, 116, 121, 117, 51, 53, 36, 76, 48,
     122, 120, 99, 118, 96, 97, 98, 100, 101, 109, 103, 111}

----------------------------------------------------------------------------
(* What a handler sends out *)

\* vibe10x.onCountUpdate(count, threshold), when a listener is registered
CountUpdate(n) == [kind |-> "count", count |-> n, text |-> ""]
\* the hs.alert.show of showNudge, fired at count n
Nudge(n, msg) == [kind |-> "nudge", count |-> n, text |-> msg]
\* the /usr/bin/say task of showNudge
Say(n, msg) == [kind |-> "say", count |-> n, text |-> msg]
\* any other hs.alert.show
Alert(msg) == [kind |-> "alert", count |-> 0, text |-> msg]
\* hs.printf
Log(msg) == [kind |-> "log", count |-> 0, text |-> msg]
\* the value the event tap's callback returns: false lets the key event pass
Return(consumed) == [kind |-> "return", count |-> 0, text |-> IF consumed THEN "true" ELSE "false"]

\* no call of the configuration library is being made
NoCall == [fn |-> "none"]

----------------------------------------------------------------------------
(* The persisted configuration *)

NoDoc == [k \in {} |-> TRUE]
MissingFile == [state |-> "missing", doc |-> NoDoc]
UnparseableFile == [state |-> "unparseable", doc |-> NoDoc]
ParsedFile(doc) == [state |-> "ok", doc |-> doc]

\* documents a user, the setup CLI or the settings server can leave in config.json
FileDocs ==
    {[enabled |-> FALSE]}
    \cup {[threshold |-> t] : t \in 0..MaxThreshold}
    \cup {[threshold |-> MaxThreshold, voice |-> [enabled |-> TRUE],
           categories |-> [devTools |-> [enabled |-> FALSE]],
           customApps |-> [apps |-> <<"Safari">>]]}

Files == {MissingFile, UnparseableFile} \cup {ParsedFile(d) : d \in FileDocs}

\* names the frontmost application can have
FocusApps == {"Visual Studio Code", "Safari"}

\* orders in which pairs() can enumerate config.categories
CategoryOrders == {<<"devTools", "communication">>, <<"communication", "devTools">>}

\* arguments of the operations that edit the configuration: a category id the
\* engine's registry lacks, an app name a category also lists, no name at all
CategoryArgs == {"devTools", "communication", "aiApps"}
AppArgs == {"Safari", "Code", "", None}
ConfigureArgs ==
    {[threshold |-> 1],
     [enabled |-> FALSE],
     [categories |-> [communication |-> [enabled |-> TRUE]]]}

\* key codes and modifier flags of the key-down events fed to the tap
KeyCodes == {0, 36}
KeyFlags ==
    {f \in [cmd : BOOLEAN, ctrl : BOOLEAN, alt : BOOLEAN] :
        Cardinality({m \in {"cmd", "ctrl", "alt"} : f[m]}) <= 1}

----------------------------------------------------------------------------
(* Helpers of the engine *)

\* a comparison of the whole name in place of the search
PlainFind_WholeName(name, pattern) == name = pattern

\* string.find(name, pattern, 1, true): a plain substring search
PlainFind(name, pattern) ==
    \E i \in 1..(Len(name) - Len(pattern) + 1) :
        SubSeq(name, i, i + Len(pattern) - 1) = pattern

Contains(seq, x) == \E i \in 1..Len(seq) : seq[i] = x

\* the loop "if not seen[app] then table.insert(apps, app)" over a list
RECURSIVE InsertUnseen(_, _)
InsertUnseen(apps, more) ==
    IF more = <<>> THEN apps
    ELSE InsertUnseen(IF Contains(apps, Head(more)) THEN apps ELSE Append(apps, Head(more)),
                      Tail(more))

\* a field that is nil counts as false
Truthy(table, key) == key \in DOMAIN table /\ table[key]

RECURSIVE CategoryApps(_, _, _)
CategoryApps(cfg, order, apps) ==
    IF order = <<>> THEN apps
    ELSE LET categoryId == Head(order)
             counted == /\ categoryId \in DOMAIN cfg.categories
                        /\ Truthy(cfg.categories[categoryId], "enabled")
                        /\ categoryId \in DOMAIN CATEGORIES
         IN  CategoryApps(cfg, Tail(order),
                          IF counted THEN InsertUnseen(apps, CATEGORIES[categoryId].apps)
                          ELSE apps)

buildMonitoredAppsList(cfg, order) ==
    LET fromCategories == IF "categories" \in DOMAIN cfg
                          THEN CategoryApps(cfg, order, <<>>)
                          ELSE <<>>
    IN  IF /\ "customApps" \in DOMAIN cfg
           /\ Truthy(cfg.customApps, "enabled")
           /\ "apps" \in DOMAIN cfg.customApps
        THEN InsertUnseen(fromCategories, cfg.customApps.apps)
        ELSE fromCategories

\* the merge of loadConfig: a key the document lacks takes the default, and a
\* table present on both sides takes the default's sub-keys it lacks; dflt is
\* the DEFAULT_CONFIG table as it is when the merge runs
MergeDefaults(dflt, parsed) ==
    [key \in DOMAIN dflt \cup DOMAIN parsed |->
        IF key \notin DOMAIN parsed THEN dflt[key]
        ELSE IF key \in DOMAIN dflt /\ key \in TableKeys
        THEN [subkey \in DOMAIN dflt[key] \cup DOMAIN parsed[key] |->
                 IF subkey \notin DOMAIN parsed[key]
                 THEN dflt[key][subkey]
                 ELSE parsed[key][subkey]]
        ELSE parsed[key]]

\* Lua assigns tables by reference: "parsed[key] = value" and
\* "parsed[key][subkey] = subvalue" put tables of DEFAULT_CONFIG into the loaded
\* configuration.  The paths of the tables the merge shares in this way:
SharedByMerge(dflt, parsed) ==
    {<<key>> : key \in {k \in DOMAIN dflt \cap TableKeys : k \notin DOMAIN parsed}}
    \cup {<<"categories", id>> :
             id \in (IF "categories" \in DOMAIN dflt \cap DOMAIN parsed
                     THEN DOMAIN dflt.categories \ DOMAIN parsed.categories
                     ELSE {})}
    \cup (IF /\ "customApps" \in DOMAIN dflt \cap DOMAIN parsed
              /\ "apps" \in DOMAIN dflt.customApps \ DOMAIN parsed.customApps
           THEN {<<"customApps", "apps">>}
           ELSE {})

\* the DEFAULT_CONFIG table after the code wrote cfg into config in place: the
\* tables both refer to (sh) hold what was written
SyncDefaults(dflt, cfg, sh) ==
    IF <<"*">> \in sh THEN cfg
    ELSE [key \in DOMAIN dflt |->
             IF <<key>> \in sh THEN cfg[key]
             ELSE IF key \in {"categories", "customApps"}
             THEN [subkey \in DOMAIN dflt[key] |->
                      IF <<key, subkey>> \in sh THEN cfg[key][subkey]
                      ELSE dflt[key][subkey]]
             ELSE dflt[key]]

\* an assignment through config that leaves it holding cfg
Mutated(s, cfg) ==
    [s EXCEPT !.config = cfg,
              !.defaults = SyncDefaults(s.defaults, cfg, s.shared)]

loadConfig(s, f, order) ==
    IF f.state = "ok"
    THEN LET parsed == MergeDefaults(s.defaults, f.doc)
         IN  [s EXCEPT !.config = parsed,
                       !.shared = SharedByMerge(s.defaults, f.doc),
                       !.monitoredAppsCache = buildMonitoredAppsList(parsed, order)]
    ELSE [s EXCEPT !.config = s.defaults,
                   !.shared = {<<"*">>},
                   !.monitoredAppsCache = buildMonitoredAppsList(s.defaults, order),
                   !.emitted = Append(@, Log(IF f.state = "missing"
                                              THEN "Config not found, using defaults"
                                              ELSE "Failed to parse config, using defaults"))]

isMonitoredApp(s, appName) ==
    /\ appName # None
    /\ \E i \in 1..Len(s.monitoredAppsCache) : PlainFind(appName, s.monitoredAppsCache[i])

Notify(s, n) == IF s.onCountUpdate THEN Append(s.emitted, CountUpdate(n)) ELSE s.emitted

resetCounter(s) ==
    [s EXCEPT !.keystrokeCount = 0, !.emitted = Notify(s, 0)]

\* resetInactivityTimer without the stop of the previous timer
resetInactivityTimer_NoCancel(s) ==
    [s EXCEPT
        !.orphanTimers = IF s.inactivityTimer = "pending" THEN @ + 1 ELSE @,
        !.inactivityTimer = "pending"]

\* resetInactivityTimer that stops the previous timer and schedules none
resetInactivityTimer_NoSchedule(s) ==
    IF s.inactivityTimer # "nil"
    THEN [s EXCEPT !.inactivityTimer = "dead"]
    ELSE s

\* a timer object is "pending" until it fires or is stopped, and "dead" after;
\* a pending timer that the local no longer refers to is an orphan
resetInactivityTimer(s) ==
    LET cancelled == IF s.inactivityTimer # "nil"
                     THEN [s EXCEPT !.inactivityTimer = "dead"]
                     ELSE s
    IN  [cancelled EXCEPT
            !.orphanTimers = IF cancelled.inactivityTimer = "pending" THEN @ + 1 ELSE @,
            !.inactivityTimer = "pending"]

\* showNudge without its closing resetCounter()
showNudge_NoReset(s) ==
    LET shown == Append(s.emitted, Nudge(s.keystrokeCount, s.config.alertMessage))
    IN  IF "voice" \in DOMAIN s.config /\ Truthy(s.config.voice, "enabled")
        THEN [s EXCEPT !.emitted = Append(shown, Say(s.keystrokeCount, s.config.alertMessage))]
        ELSE [s EXCEPT !.emitted = shown]

showNudge(s) ==
    LET shown == Append(s.emitted, Nudge(s.keystrokeCount, s.config.alertMessage))
        spoken == IF "voice" \in DOMAIN s.config /\ Truthy(s.config.voice, "enabled")
                  THEN Append(shown, Say(s.keystrokeCount, s.config.alertMessage))
                  ELSE shown
    IN  resetCounter([s EXCEPT !.emitted = spoken])

----------------------------------------------------------------------------
(* The handlers, over the record of the engine's locals *)

Returns(s, consumed) == [s EXCEPT !.emitted = Append(@, Return(consumed))]

\* handleKeystroke with the threshold test "count > threshold"
handleKeystroke_StrictThreshold(s, flags, keyCode) ==
    IF ~Truthy(s.config, "enabled") THEN Returns(s, FALSE)
    ELSE IF ~isMonitoredApp(s, s.currentApp) THEN Returns(s, FALSE)
    ELSE IF flags.cmd \/ flags.ctrl \/ flags.alt THEN Returns(s, FALSE)
    ELSE IF keyCode \in ignoredKeyCodes THEN Returns(s, FALSE)
    ELSE LET counted == [s EXCEPT !.keystrokeCount = @ + 1,
                                  !.emitted = Notify(s, s.keystrokeCount + 1)]
             timed == resetInactivityTimer(counted)
         IN  IF timed.keystrokeCount > timed.config.threshold
             THEN Returns(showNudge(timed), FALSE)
             ELSE Returns(timed, FALSE)

\* handleKeystroke with a modifier test that misses the alt (Option) key
handleKeystroke_AltCounted(s, flags, keyCode) ==
    IF ~Truthy(s.config, "enabled") THEN Returns(s, FALSE)
    ELSE IF ~isMonitoredApp(s, s.currentApp) THEN Returns(s, FALSE)
    ELSE IF flags.cmd \/ flags.ctrl THEN Returns(s, FALSE)
    ELSE IF keyCode \in ignoredKeyCodes THEN Returns(s, FALSE)
    ELSE LET counted == [s EXCEPT !.keystrokeCount = @ + 1,
                                  !.emitted = Notify(s, s.keystrokeCount + 1)]
             timed == resetInactivityTimer(counted)
         IN  IF timed.keystrokeCount >= timed.config.threshold
             THEN Returns(showNudge(timed), FALSE)
             ELSE Returns(timed, FALSE)

\* handleKeystroke that consumes the key event on which the alert fires
handleKeystroke_ConsumesOnAlert(s, flags, keyCode) ==
    IF ~Truthy(s.config, "enabled") THEN Returns(s, FALSE)
    ELSE IF ~isMonitoredApp(s, s.currentApp) THEN Returns(s, FALSE)
    ELSE IF flags.cmd \/ flags.ctrl \/ flags.alt THEN Returns(s, FALSE)
    ELSE IF keyCode \in ignoredKeyCodes THEN Returns(s, FALSE)
    ELSE LET counted == [s EXCEPT !.keystrokeCount = @ + 1,
                                  !.emitted = Notify(s, s.keystrokeCount + 1)]
             timed == resetInactivityTimer(counted)
         IN  IF timed.keystrokeCount >= timed.config.threshold
             THEN Returns(showNudge(timed), TRUE)
             ELSE Returns(timed, FALSE)

handleKeystroke(s, flags, keyCode) ==
    IF ~Truthy(s.config, "enabled") THEN Returns(s, FALSE)
    ELSE IF ~isMonitoredApp(s, s.currentApp) THEN Returns(s, FALSE)
    ELSE IF flags.cmd \/ flags.ctrl \/ flags.alt THEN Returns(s, FALSE)
    ELSE IF keyCode \in ignoredKeyCodes THEN Returns(s, FALSE)
    ELSE LET counted == [s EXCEPT !.keystrokeCount = @ + 1,
                                  !.emitted = Notify(s, s.keystrokeCount + 1)]
             timed == resetInactivityTimer(counted)
         IN  IF timed.keystrokeCount >= timed.config.threshold
             THEN Returns(showNudge(timed), FALSE)
             ELSE Returns(timed, FALSE)

\* handleAppEvent whose deactivated branch clears currentApp for any application
handleAppEvent_ClearsAlways(s, appName, eventType) ==
    IF eventType = "activated"
    THEN LET previousApp == s.currentApp
             switched == [s EXCEPT !.currentApp = appName]
         IN  IF /\ previousApp # None
                /\ isMonitoredApp(switched, previousApp)
                /\ ~isMonitoredApp(switched, switched.currentApp)
             THEN resetCounter(switched)
             ELSE switched
    ELSE IF eventType = "deactivated"
    THEN [s EXCEPT !.currentApp = None]
    ELSE s

handleAppEvent(s, appName, eventType) ==
    IF eventType = "activated"
    THEN LET previousApp == s.currentApp
             switched == [s EXCEPT !.currentApp = appName]
         IN  IF /\ previousApp # None
                /\ isMonitoredApp(switched, previousApp)
                /\ ~isMonitoredApp(switched, switched.currentApp)
             THEN resetCounter(switched)
             ELSE switched
    ELSE IF eventType = "deactivated" /\ appName = s.currentApp
    THEN [s EXCEPT !.currentApp = None]
    ELSE s

\* start without the "already running" return
start_NoRunningCheck(s, f, front, order) ==
    LET loaded == loadConfig(s, f, order)
    IN  IF ~Truthy(loaded.config, "enabled")
        THEN [loaded EXCEPT !.emitted = Append(@, Log("Disabled in config"))]
        ELSE [loaded EXCEPT
                 !.currentApp = IF front # None THEN front ELSE @,
                 !.eventTap = @ + 1,
                 !.appWatcher = @ + 1,
                 !.configWatcher = @ + 1,
                 !.isMonitoring = TRUE,
                 !.emitted = Append(@, Log("Started"))]

start(s, f, front, order) ==
    IF s.isMonitoring
    THEN [s EXCEPT !.emitted = Append(@, Log("Already running"))]
    ELSE LET loaded == loadConfig(s, f, order)
         IN  IF ~Truthy(loaded.config, "enabled")
             THEN [loaded EXCEPT !.emitted = Append(@, Log("Disabled in config"))]
             ELSE [loaded EXCEPT
                      !.currentApp = IF front # None THEN front ELSE @,
                      !.eventTap = @ + 1,
                      !.appWatcher = @ + 1,
                      !.configWatcher = @ + 1,
                      !.isMonitoring = TRUE,
                      !.emitted = Append(@, Log("Started"))]

\* stop without the block that stops the inactivity timer
stop_KeepsTimer(s) ==
    LET released ==
            [s EXCEPT
                !.eventTap = IF @ > 0 THEN @ - 1 ELSE @,
                !.appWatcher = IF @ > 0 THEN @ - 1 ELSE @,
                !.pendingFocus = IF s.appWatcher > 0 THEN {} ELSE @,
                !.configWatcher = IF @ > 0 THEN @ - 1 ELSE @,
                !.fileChanged = IF s.configWatcher > 0 THEN FALSE ELSE @]
        zeroed == resetCounter(released)
    IN  [zeroed EXCEPT !.isMonitoring = FALSE,
                       !.emitted = Append(@, Log("Stopped"))]

\* stop without the block that stops the path watcher
stop_KeepsConfigWatcher(s) ==
    LET released ==
            [s EXCEPT
                !.eventTap = IF @ > 0 THEN @ - 1 ELSE @,
                !.appWatcher = IF @ > 0 THEN @ - 1 ELSE @,
                !.pendingFocus = IF s.appWatcher > 0 THEN {} ELSE @,
                !.inactivityTimer = "nil"]
        zeroed == resetCounter(released)
    IN  [zeroed EXCEPT !.isMonitoring = FALSE,
                       !.emitted = Append(@, Log("Stopped"))]

\* stop without its resetCounter()
stop_KeepsCount(s) ==
    LET released ==
            [s EXCEPT
                !.eventTap = IF @ > 0 THEN @ - 1 ELSE @,
                !.appWatcher = IF @ > 0 THEN @ - 1 ELSE @,
                !.pendingFocus = IF s.appWatcher > 0 THEN {} ELSE @,
                !.inactivityTimer = "nil",
                !.configWatcher = IF @ > 0 THEN @ - 1 ELSE @,
                !.fileChanged = IF s.configWatcher > 0 THEN FALSE ELSE @]
    IN  [released EXCEPT !.isMonitoring = FALSE,
                         !.emitted = Append(@, Log("Stopped"))]

stop(s) ==
    LET released ==
            [s EXCEPT
                !.eventTap = IF @ > 0 THEN @ - 1 ELSE @,
                !.appWatcher = IF @ > 0 THEN @ - 1 ELSE @,
                !.pendingFocus = IF s.appWatcher > 0 THEN {} ELSE @,
                !.inactivityTimer = "nil",
                !.configWatcher = IF @ > 0 THEN @ - 1 ELSE @,
                !.fileChanged = IF s.configWatcher > 0 THEN FALSE ELSE @]
        zeroed == resetCounter(released)
    IN  [zeroed EXCEPT !.isMonitoring = FALSE,
                       !.emitted = Append(@, Log("Stopped"))]

toggle(s, f, front, order) ==
    IF s.isMonitoring
    THEN LET stopped == stop(s)
         IN  [stopped EXCEPT !.emitted = Append(@, Alert("Vibe10X: OFF"))]
    ELSE LET forced == Mutated(s, [enabled |-> TRUE] @@ s.config)
             started == start(forced, f, front, order)
         IN  [started EXCEPT !.emitted = Append(@, Alert("Vibe10X: ON"))]

\* reload without the stop() of a running engine
reload_NoStop(s, f, front, order) ==
    LET wasMonitoring == s.isMonitoring
        loaded == loadConfig(s, f, order)
        restarted == IF wasMonitoring /\ Truthy(loaded.config, "enabled")
                     THEN start(loaded, f, front, order)
                     ELSE loaded
    IN  [restarted EXCEPT !.emitted = Append(@, Log("Configuration reloaded"))]

reload(s, f, front, order) ==
    LET wasMonitoring == s.isMonitoring
        stopped == IF wasMonitoring THEN stop(s) ELSE s
        loaded == loadConfig(stopped, f, order)
        restarted == IF wasMonitoring /\ Truthy(loaded.config, "enabled")
                     THEN start(loaded, f, front, order)
                     ELSE loaded
    IN  [restarted EXCEPT !.emitted = Append(@, Log("Configuration reloaded"))]

\* reset that zeroes the count without telling the listener
reset_Silent(s) ==
    [s EXCEPT !.keystrokeCount = 0, !.emitted = Append(@, Log("Counter reset"))]

reset(s) ==
    LET zeroed == resetCounter(s)
    IN  [zeroed EXCEPT !.emitted = Append(@, Log("Counter reset"))]

\* saveConfig: written says whether io.open(CONFIG_PATH, "w") gave a file; the
\* path watcher, when one is started, sees the write
saveConfig(s, written) ==
    IF written
    THEN [s EXCEPT !.file = ParsedFile(s.config),
                   !.fileChanged = (s.configWatcher > 0)]
    ELSE s

\* config.categories with the entry of categoryId, made as entry when it is missing
CategoriesWith(cfg, categoryId, entry) ==
    LET held == IF "categories" \in DOMAIN cfg THEN cfg.categories ELSE NoDoc
    IN  IF categoryId \in DOMAIN held THEN held ELSE (categoryId :> entry) @@ held

\* SetCategory without the buildMonitoredAppsList() that follows saveConfig()
SetCategory_NoRebuild(s, categoryId, entry, value, written, order) ==
    LET held == CategoriesWith(s.config, categoryId, entry)
        set == [held EXCEPT ![categoryId] = [enabled |-> value] @@ @]
    IN  saveConfig(Mutated(s, [categories |-> set] @@ s.config), written)

\* config.categories[categoryId].enabled = value, then saveConfig and buildMonitoredAppsList
SetCategory(s, categoryId, entry, value, written, order) ==
    LET held == CategoriesWith(s.config, categoryId, entry)
        set == [held EXCEPT ![categoryId] = [enabled |-> value] @@ @]
        saved == saveConfig(Mutated(s, [categories |-> set] @@ s.config), written)
    IN  [saved EXCEPT !.monitoredAppsCache = buildMonitoredAppsList(saved.config, order)]

toggleCategory(s, categoryId, written, order) ==
    IF categoryId \notin DOMAIN CATEGORIES
    THEN [s EXCEPT !.emitted = @ \o <<Log("Unknown category: " \o categoryId), Return(FALSE)>>]
    ELSE LET entry == [enabled |-> FALSE]
             value == ~Truthy(CategoriesWith(s.config, categoryId, entry)[categoryId], "enabled")
             state == CATEGORIES[categoryId].name \o ": " \o (IF value THEN "ON" ELSE "OFF")
         IN  [SetCategory(s, categoryId, entry, value, written, order) EXCEPT
                 !.emitted = @ \o <<Alert(state), Log("Category: " \o state), Return(value)>>]

enableCategory(s, categoryId, written, order) ==
    IF categoryId \notin DOMAIN CATEGORIES THEN Returns(s, FALSE)
    ELSE Returns(SetCategory(s, categoryId, NoDoc, TRUE, written, order), TRUE)

disableCategory(s, categoryId, written, order) ==
    IF categoryId \notin DOMAIN CATEGORIES THEN Returns(s, FALSE)
    ELSE Returns(SetCategory(s, categoryId, NoDoc, FALSE, written, order), TRUE)

\* config.customApps, made when it is missing, with its apps list made when that is missing
CustomAppsOf(cfg) ==
    LET held == IF "customApps" \in DOMAIN cfg THEN cfg.customApps
                ELSE [enabled |-> TRUE, apps |-> <<>>]
    IN  IF "apps" \in DOMAIN held THEN held ELSE [apps |-> <<>>] @@ held

\* table.remove(list, i)
RemoveAt(list, i) == SubSeq(list, 1, i - 1) \o SubSeq(list, i + 1, Len(list))

\* addCustomApp without the loop that looks for the name in the list
addCustomApp_NoDuplicateCheck(s, appName, written, order) ==
    IF appName = None \/ appName = "" THEN Returns(s, FALSE)
    ELSE LET held == CustomAppsOf(s.config)
             added == [held EXCEPT !.apps = Append(@, appName)]
             saved == saveConfig(Mutated(s, [customApps |-> added] @@ s.config), written)
         IN  [saved EXCEPT
                 !.monitoredAppsCache = buildMonitoredAppsList(saved.config, order),
                 !.emitted = @ \o <<Log("Added custom app '" \o appName \o "'"),
                                    Return(TRUE)>>]

addCustomApp(s, appName, written, order) ==
    IF appName = None \/ appName = "" THEN Returns(s, FALSE)
    ELSE LET held == CustomAppsOf(s.config)
         IN  IF Contains(held.apps, appName)
             THEN Returns(Mutated(s, [customApps |-> held] @@ s.config), FALSE)
             ELSE LET added == [held EXCEPT !.apps = Append(@, appName)]
                      saved == saveConfig(Mutated(s, [customApps |-> added] @@ s.config), written)
                  IN  [saved EXCEPT
                          !.monitoredAppsCache = buildMonitoredAppsList(saved.config, order),
                          !.emitted = @ \o <<Log("Added custom app '" \o appName \o "'"),
                                             Return(TRUE)>>]

removeCustomApp(s, appName, written, order) ==
    IF "customApps" \notin DOMAIN s.config \/ "apps" \notin DOMAIN s.config.customApps
    THEN Returns(s, FALSE)
    ELSE LET apps == s.config.customApps.apps
         IN  IF ~Contains(apps, appName) THEN Returns(s, FALSE)
             ELSE LET i == CHOOSE k \in 1..Len(apps) :
                               apps[k] = appName /\ \A j \in 1..(k - 1) : apps[j] # appName
                      removed == [s.config.customApps EXCEPT !.apps = RemoveAt(apps, i)]
                      saved == saveConfig(Mutated(s, [customApps |-> removed] @@ s.config),
                                          written)
                  IN  [saved EXCEPT
                          !.monitoredAppsCache = buildMonitoredAppsList(saved.config, order),
                          !.emitted = @ \o <<Log("Removed custom app '" \o appName \o "'"),
                                             Return(TRUE)>>]

toggleCustomApps(s, written, order) ==
    LET held == IF "customApps" \in DOMAIN s.config THEN s.config.customApps
                ELSE [enabled |-> TRUE, apps |-> <<>>]
        value == ~Truthy(held, "enabled")
        saved == saveConfig(Mutated(s, [customApps |-> [enabled |-> value] @@ held] @@ s.config),
                            written)
    IN  [saved EXCEPT
            !.monitoredAppsCache = buildMonitoredAppsList(saved.config, order),
            !.emitted = @ \o <<Alert("Custom Apps: " \o (IF value THEN "ON" ELSE "OFF")),
                               Return(value)>>]

\* configure: config[key] = value puts the caller's tables in config, so those
\* keys stop being tables of DEFAULT_CONFIG unless config is DEFAULT_CONFIG itself
configure(s, newConfig, written, front, order) ==
    LET own == IF <<"*">> \in s.shared THEN s.shared
               ELSE {path \in s.shared : path[1] \notin DOMAIN newConfig}
        assigned == Mutated([s EXCEPT !.shared = own], newConfig @@ s.config)
        saved == saveConfig(assigned, written)
    IN  reload(saved, saved.file, front, order)

\* the callback of the config-file watcher
configChanged(s, f, front, order) ==
    reload([s EXCEPT !.emitted = Append(@, Log("Config changed, reloading...")),
                     !.fileChanged = FALSE],
           f, front, order)

\* the callback of hs.timer.doAfter: one scheduled timer fires
timerFired(s, which) ==
    resetCounter(IF which = "held"
                 THEN [s EXCEPT !.inactivityTimer = "dead"]
                 ELSE [s EXCEPT !.orphanTimers = @ - 1])

----------------------------------------------------------------------------
(* The state machine *)

\* the engine's locals as a handler finds them; it has sent nothing yet
Engine ==
    [config |-> config,
     keystrokeCount |-> keystrokeCount,
     currentApp |-> currentApp,
     isMonitoring |-> isMonitoring,
     monitoredAppsCache |-> monitoredAppsCache,
     eventTap |-> eventTap,
     appWatcher |-> appWatcher,
     configWatcher |-> configWatcher,
     inactivityTimer |-> inactivityTimer,
     orphanTimers |-> orphanTimers,
     onCountUpdate |-> onCountUpdate,
     emitted |-> <<>>,
     fileChanged |-> fileChanged,
     pendingFocus |-> pendingFocus,
     file |-> file,
     defaults |-> defaults,
     shared |-> shared]

\* the locals when the module is loaded, before its last line calls start()
Pristine ==
    [config |-> NoDoc,
     keystrokeCount |-> 0,
     currentApp |-> None,
     isMonitoring |-> FALSE,
     monitoredAppsCache |-> <<>>,
     eventTap |-> 0,
     appWatcher |-> 0,
     configWatcher |-> 0,
     inactivityTimer |-> "nil",
     orphanTimers |-> 0,
     onCountUpdate |-> FALSE,
     emitted |-> <<>>,
     fileChanged |-> FALSE,
     pendingFocus |-> {},
     file |-> MissingFile,
     defaults |-> DEFAULT_CONFIG,
     shared |-> {}]

\* updateTitle(count, threshold) called by the menu bar module itself
SetTitle(n) == [kind |-> "title", count |-> n, text |-> ""]

\* the locals of the menu bar module and the listener it sets in the engine
Menu == [menuBar |-> menuBar, onCountUpdate |-> onCountUpdate, emitted |-> <<>>]

\* vibe10xMenu.stop: the item is deleted when there is one, the listener is removed
menuStop(m) ==
    [m EXCEPT !.menuBar = IF @ > 0 THEN @ - 1 ELSE @,
              !.onCountUpdate = FALSE,
              !.emitted = Append(@, Log("Menu: Stopped"))]

\* vibe10xMenu.start without the stop of the menu that is already up
menuStart_NoStop(m) ==
    [m EXCEPT !.menuBar = @ + 1,
              !.onCountUpdate = TRUE,
              !.emitted = @ \o <<SetTitle(0), Log("Menu: Started")>>]

\* vibe10xMenu.start: a menu that is up is stopped first; hs.menubar.new() gives
\* the new item, its title is set from the count 0, then the listener is registered
menuStart(m) ==
    LET stopped == IF m.menuBar > 0 THEN menuStop(m) ELSE m
    IN  [stopped EXCEPT !.menuBar = @ + 1,
                        !.onCountUpdate = TRUE,
                        !.emitted = @ \o <<SetTitle(0), Log("Menu: Started")>>]

\* the locals, the file and the pending events as a handler leaves them in s
Leaves(s) ==
    /\ config' = s.config
    /\ keystrokeCount' = s.keystrokeCount
    /\ currentApp' = s.currentApp
    /\ isMonitoring' = s.isMonitoring
    /\ monitoredAppsCache' = s.monitoredAppsCache
    /\ eventTap' = s.eventTap
    /\ appWatcher' = s.appWatcher
    /\ configWatcher' = s.configWatcher
    /\ inactivityTimer' = s.inactivityTimer
    /\ orphanTimers' = s.orphanTimers
    /\ emitted' = s.emitted
    /\ fileChanged' = s.fileChanged
    /\ pendingFocus' = s.pendingFocus
    /\ file' = s.file
    /\ defaults' = s.defaults
    /\ shared' = s.shared
    /\ UNCHANGED <<onCountUpdate, menuBar, frontApp, libCall, libResult>>

\* a handler ran to completion and left the locals s
Commit(s) == Leaves(s) /\ UNCHANGED configOps

\* an operation that edits the configuration ran to completion and left the locals s
CommitEdit(s) == Leaves(s) /\ configOps' = configOps + 1

\* require("vibe10x"): the module's locals are set and its last line calls start()
Init ==
    \E f \in Files, front \in FocusApps \cup {None}, order \in CategoryOrders :
        LET s == start([Pristine EXCEPT !.file = f], f, front, order)
        IN  /\ config = s.config
            /\ keystrokeCount = s.keystrokeCount
            /\ currentApp = s.currentApp
            /\ isMonitoring = s.isMonitoring
            /\ monitoredAppsCache = s.monitoredAppsCache
            /\ eventTap = s.eventTap
            /\ appWatcher = s.appWatcher
            /\ configWatcher = s.configWatcher
            /\ inactivityTimer = s.inactivityTimer
            /\ orphanTimers = s.orphanTimers
            /\ emitted = s.emitted
            /\ fileChanged = s.fileChanged
            /\ pendingFocus = s.pendingFocus
            /\ onCountUpdate = FALSE
            /\ menuBar = 0
            /\ file = f
            /\ frontApp = front
            /\ defaults = s.defaults
            /\ shared = s.shared
            /\ configOps = 0
            /\ libCall = NoCall
            /\ libResult = None

Start ==
    \E order \in CategoryOrders : Commit(start(Engine, file, frontApp, order))

Stop == Commit(stop(Engine))

Toggle ==
    \E order \in CategoryOrders : Commit(toggle(Engine, file, frontApp, order))

Reload ==
    \E order \in CategoryOrders : Commit(reload(Engine, file, frontApp, order))

Reset == Commit(reset(Engine))

\* the event tap delivers a key-down event
KeyDown ==
    /\ eventTap > 0
    /\ \E flags \in KeyFlags, keyCode \in KeyCodes :
           Commit(handleKeystroke(Engine, flags, keyCode))

\* the application watcher delivers one of the focus events it holds
AppEvent ==
    /\ appWatcher > 0
    /\ \E e \in pendingFocus :
           Commit(handleAppEvent([Engine EXCEPT !.pendingFocus = @ \ {e}], e.app, e.type))

\* a scheduled inactivity timer expires
TimerFires ==
    \E which \in (IF inactivityTimer = "pending" THEN {"held"} ELSE {})
                 \cup (IF orphanTimers > 0 THEN {"orphan"} ELSE {}) :
        Commit(timerFired(Engine, which))

\* the path watcher reports that config.json changed
ConfigWatcherFires ==
    /\ configWatcher > 0
    /\ fileChanged
    /\ \E order \in CategoryOrders : Commit(configChanged(Engine, file, frontApp, order))

\* the operations that edit the configuration, called from the menu bar or the console
ToggleCategory ==
    /\ configOps < MaxConfigOps
    /\ \E categoryId \in CategoryArgs, written \in BOOLEAN, order \in CategoryOrders :
           CommitEdit(toggleCategory(Engine, categoryId, written, order))

EnableCategory ==
    /\ configOps < MaxConfigOps
    /\ \E categoryId \in CategoryArgs, written \in BOOLEAN, order \in CategoryOrders :
           CommitEdit(enableCategory(Engine, categoryId, written, order))

DisableCategory ==
    /\ configOps < MaxConfigOps
    /\ \E categoryId \in CategoryArgs, written \in BOOLEAN, order \in CategoryOrders :
           CommitEdit(disableCategory(Engine, categoryId, written, order))

AddCustomApp ==
    /\ configOps < MaxConfigOps
    /\ \E appName \in AppArgs, written \in BOOLEAN, order \in CategoryOrders :
           CommitEdit(addCustomApp(Engine, appName, written, order))

RemoveCustomApp ==
    /\ configOps < MaxConfigOps
    /\ \E appName \in AppArgs, written \in BOOLEAN, order \in CategoryOrders :
           CommitEdit(removeCustomApp(Engine, appName, written, order))

ToggleCustomApps ==
    /\ configOps < MaxConfigOps
    /\ \E written \in BOOLEAN, order \in CategoryOrders :
           CommitEdit(toggleCustomApps(Engine, written, order))

Configure ==
    /\ configOps < MaxConfigOps
    /\ \E newConfig \in ConfigureArgs, written \in BOOLEAN, order \in CategoryOrders :
           CommitEdit(configure(Engine, newConfig, written, frontApp, order))

\* the menu bar module registers or removes its count listener; a start with the
\* menu already up stops it first
MenuStart ==
    LET m == menuStart(Menu)
    IN  /\ menuBar' = m.menuBar
        /\ onCountUpdate' = m.onCountUpdate
        /\ emitted' = m.emitted
        /\ UNCHANGED <<config, keystrokeCount, currentApp, isMonitoring,
                       monitoredAppsCache, eventTap, appWatcher, configWatcher,
                       inactivityTimer, orphanTimers, file, fileChanged, frontApp,
                       pendingFocus, defaults, shared, configOps, libCall, libResult>>

MenuStop ==
    LET m == menuStop(Menu)
    IN  /\ menuBar' = m.menuBar
        /\ onCountUpdate' = m.onCountUpdate
        /\ emitted' = m.emitted
        /\ UNCHANGED <<config, keystrokeCount, currentApp, isMonitoring,
                       monitoredAppsCache, eventTap, appWatcher, configWatcher,
                       inactivityTimer, orphanTimers, file, fileChanged, frontApp,
                       pendingFocus, defaults, shared, configOps, libCall, libResult>>

\* the user brings another application to the front (or none is left in front)
FocusSwitch ==
    /\ pendingFocus = {}
    /\ \E new \in (FocusApps \cup {None}) \ {frontApp} :
           /\ frontApp' = new
           /\ pendingFocus' =
                  IF appWatcher > 0
                  THEN (IF frontApp # None
                        THEN {[type |-> "deactivated", app |-> frontApp, from |-> frontApp]}
                        ELSE {})
                       \cup (IF new # None
                             THEN {[type |-> "activated", app |-> new, from |-> frontApp]}
                             ELSE {})
                  ELSE {}
    /\ UNCHANGED <<config, keystrokeCount, currentApp, isMonitoring, monitoredAppsCache,
                   eventTap, appWatcher, configWatcher, inactivityTimer, orphanTimers,
                   onCountUpdate, menuBar, emitted, file, fileChanged,
                   defaults, shared, configOps, libCall, libResult>>

\* another program (an editor, the setup CLI, the settings server) rewrites or removes config.json
ExternalWrite ==
    /\ \E f \in Files \ {file} :
           /\ file' = f
           /\ fileChanged' = (configWatcher > 0)
    /\ UNCHANGED <<config, keystrokeCount, currentApp, isMonitoring, monitoredAppsCache,
                   eventTap, appWatcher, configWatcher, inactivityTimer, orphanTimers,
                   onCountUpdate, menuBar, emitted, frontApp, pendingFocus,
                   defaults, shared, configOps, libCall, libResult>>

Next ==
    \/ Start
    \/ Stop
    \/ Toggle
    \/ Reload
    \/ Reset
    \/ KeyDown
    \/ AppEvent
    \/ TimerFires
    \/ ConfigWatcherFires
    \/ MenuStart
    \/ MenuStop
    \/ FocusSwitch
    \/ ExternalWrite

Spec == Init /\ [][Next]_vars

\* The engine seen from its configuration: the operations that read or write
\* config, DEFAULT_CONFIG, config.json, the monitored-app list and the run
\* state.  Key, focus and timer events write none of these.
ConfigNext ==
    \/ Start
    \/ Stop
    \/ Toggle
    \/ Reload
    \/ ConfigWatcherFires
    \/ ExternalWrite
    \/ ToggleCategory
    \/ EnableCategory
    \/ DisableCategory
    \/ AddCustomApp
    \/ RemoveCustomApp
    \/ ToggleCustomApps
    \/ Configure

\* no application is in front when the module is loaded: the focus plays no
\* part in these operations
ConfigInit == Init /\ frontApp = None

ConfigSpec == ConfigInit /\ [][ConfigNext]_vars

\* timer expiry is scheduled by the run loop: a pending timer fires unless it is stopped
LiveSpec == Spec /\ WF_vars(TimerFires)

\* The engine as its events drive it: the lifecycle calls, configure, the event
\* tap, the application watcher and the inactivity timer.
RunNext ==
    \/ Start
    \/ Stop
    \/ Toggle
    \/ Reload
    \/ Configure
    \/ KeyDown
    \/ AppEvent
    \/ TimerFires
    \/ FocusSwitch

RunSpec == Init /\ [][RunNext]_vars

\* The engine and the menu bar module: what changes the count, and the menu
\* bar's start and stop.
MenuNext ==
    \/ Start
    \/ Stop
    \/ Reset
    \/ KeyDown
    \/ AppEvent
    \/ TimerFires
    \/ FocusSwitch
    \/ MenuStart
    \/ MenuStop

MenuSpec == Init /\ [][MenuNext]_vars

\* The engine seen from config.json: start, stop, toggle, reload, the file
\* rewritten by another program, and the path watcher's callback.
WatchNext ==
    \/ Start
    \/ Stop
    \/ Toggle
    \/ Reload
    \/ ConfigWatcherFires
    \/ ExternalWrite

WatchSpec == Init /\ [][WatchNext]_vars

----------------------------------------------------------------------------
(* The pure functions, called on their own.  The engine is not loaded: its    *)
(* locals stay as the module's first lines leave them, and each step is one   *)
(* call of one function on arguments drawn from the sets below.               *)

\* lib/config.js: CATEGORIES, parsed from config/categories.json.  The Lua table
\* mirrors its devTools and communication; aiApps holds the apps the tests name
CATEGORIES_json ==
    [devTools |-> CATEGORIES.devTools,
     communication |-> CATEGORIES.communication,
     aiApps |->
        [name |-> "AI Apps",
         description |-> "AI assistants and chat apps",
         apps |-> <<"Claude", "ChatGPT", "Perplexity">>]]

\* the property names every JavaScript object inherits from Object.prototype
ObjectPrototypeKeys ==
    {"constructor", "__proto__", "toString", "toLocaleString", "valueOf",
     "hasOwnProperty", "isPrototypeOf", "propertyIsEnumerable",
     "__defineGetter__", "__defineSetter__", "__lookupGetter__", "__lookupSetter__"}

\* object[key] of an object literal: an own property, an inherited one, or undefined
Lookup(object, key) ==
    IF key \in DOMAIN object THEN [found |-> "own", value |-> object[key]]
    ELSE IF key \in ObjectPrototypeKeys THEN [found |-> "inherited"]
    ELSE [found |-> "undefined"]

\* a JavaScript value, written as its literal, in a condition
JsTruthy(literal) == literal \notin {"false", "undefined", "null", "0", "NaN", "\"\""}

Returned(value) == [threw |-> FALSE, value |-> value]
Threw(error, message) == [threw |-> TRUE, error |-> error, message |-> message]

\* apps.add(app) as a push onto an array
AddAll_Push(apps, list) == apps \o list

\* apps.add(app) for each app of a list: a Set keeps the first insertion only
AddAll(apps, list) == InsertUnseen(apps, list)

\* the loop over Object.entries(config.categories), from the apps gathered so far
RECURSIVE EnabledCategoryApps(_, _)
EnabledCategoryApps(entries, apps) ==
    IF entries = <<>> THEN Returned(apps)
    ELSE LET categoryId == Head(entries).id
             categoryConfig == Head(entries).entry
             category == Lookup(CATEGORIES_json, categoryId)
             enabled == IF categoryConfig.type = "object" THEN categoryConfig.enabled
                        ELSE "undefined"
         IN  IF categoryConfig.type \in {"null", "undefined"}
             THEN Threw("TypeError", "Cannot read properties of " \o categoryConfig.type)
             ELSE IF ~(JsTruthy(enabled) /\ category.found # "undefined")
             THEN EnabledCategoryApps(Tail(entries), apps)
             ELSE IF category.found = "inherited"
             THEN Threw("TypeError", "CATEGORIES[categoryId].apps is not iterable")
             ELSE EnabledCategoryApps(Tail(entries), AddAll(apps, category.value.apps))

getEnabledApps(cfg) ==
    LET fromCategories == IF cfg.categories.type = "object"
                          THEN EnabledCategoryApps(cfg.categories.entries, <<>>)
                          ELSE Returned(<<>>)
        customApps == cfg.customApps
        counted == /\ customApps.type = "object"
                   /\ JsTruthy(customApps.enabled)
                   /\ customApps.apps.type = "array"
    IN  IF fromCategories.threw THEN fromCategories
        ELSE IF counted THEN Returned(AddAll(fromCategories.value, customApps.apps.items))
        ELSE fromCategories

\* a field the config does not have, and one that is null
JsUndefined == [type |-> "undefined"]
JsNull == [type |-> "null"]

\* {enabled: <literal>} and the entry of a category in config.categories
CategoryEntry(categoryId, literal) ==
    [id |-> categoryId, entry |-> [type |-> "object", enabled |-> literal]]

\* values of config.categories given to getEnabledApps, keys in insertion order
CategoriesValues ==
    {JsUndefined} \cup
    {[type |-> "object", entries |-> entries] : entries \in
        {<<>>,
         <<CategoryEntry("devTools", "true")>>,
         <<CategoryEntry("devTools", "false"), CategoryEntry("communication", "true")>>,
         <<CategoryEntry("communication", "true"), CategoryEntry("devTools", "true"),
           CategoryEntry("aiApps", "false")>>,
         <<CategoryEntry("aiApps", "true"), CategoryEntry("devTools", "undefined")>>,
         <<CategoryEntry("games", "true"), CategoryEntry("aiApps", "true")>>,
         <<CategoryEntry("constructor", "true")>>,
         <<CategoryEntry("constructor", "false"), CategoryEntry("devTools", "true")>>,
         <<CategoryEntry("devTools", "\"yes\"")>>,
         <<[id |-> "devTools", entry |-> JsNull]>>,
         <<[id |-> "devTools", entry |-> [type |-> "string", text |-> "on"]],
           CategoryEntry("aiApps", "true")>>,
         <<CategoryEntry("devTools", "true"), CategoryEntry("communication", "false"),
           CategoryEntry("aiApps", "true")>>}}

\* values of config.customApps given to getEnabledApps
CustomAppsValues ==
    {JsUndefined, JsNull} \cup
    {[type |-> "object", enabled |-> literal, apps |-> apps] :
        literal \in {"true", "false"},
        apps \in {[type |-> "array", items |-> items] :
                      items \in {<<>>, <<"MyApp">>, <<"Code", "NewApp">>,
                                 <<"NewApp", "Claude", "NewApp">>}}
                 \cup {[type |-> "string", text |-> "Code"], JsUndefined}}

\* JavaScript strings, character by character
Char(text, i) == SubSeq(text, i, i)
DigitChars == "0123456789"
IsDigit(c) == \E d \in 0..9 : Char(DigitChars, d + 1) = c
DigitOf(c) == CHOOSE d \in 0..9 : Char(DigitChars, d + 1) = c
IsWhiteSpace(c) == c \in {" ", "\t", "\n", "\r"}

\* the text after its leading white space
TrimStart(text) ==
    LET n == CHOOSE k \in 0..Len(text) :
                 /\ \A i \in 1..k : IsWhiteSpace(Char(text, i))
                 /\ k = Len(text) \/ ~IsWhiteSpace(Char(text, k + 1))
    IN  SubSeq(text, n + 1, Len(text))

\* the longest prefix of decimal digits
DigitPrefix(text) ==
    LET n == CHOOSE k \in 0..Len(text) :
                 /\ \A i \in 1..k : IsDigit(Char(text, i))
                 /\ k = Len(text) \/ ~IsDigit(Char(text, k + 1))
    IN  SubSeq(text, 1, n)

RECURSIVE DecimalValue(_)
DecimalValue(digits) ==
    IF digits = "" THEN 0
    ELSE DecimalValue(SubSeq(digits, 1, Len(digits) - 1)) * 10
             + DigitOf(Char(digits, Len(digits)))

RECURSIVE NatToString(_)
NatToString(n) ==
    IF n < 10 THEN Char(DigitChars, n + 1)
    ELSE NatToString(n \div 10) \o Char(DigitChars, (n % 10) + 1)

RECURSIVE Zeros(_)
Zeros(n) == IF n <= 0 THEN "" ELSE "0" \o Zeros(n - 1)

Abs(n) == IF n < 0 THEN -n ELSE n

\* a JavaScript number: NaN, an infinity, or the decimal num * 10^scale, where
\* num does not end in 0 unless scale is 0
NaN == [type |-> "number", kind |-> "nan"]
Infinity(sign) == [type |-> "number", kind |-> "inf", sign |-> sign]
Number(num, scale) == [type |-> "number", kind |-> "finite", num |-> num, scale |-> scale]
JsString(text) == [type |-> "string", text |-> text]

\* Number::toString(x) of a finite number: digits, position of the point, exponent form
NumberToString(x) ==
    LET digits == NatToString(Abs(x.num))
        k == Len(digits)
        n == k + x.scale
        sign == IF x.num < 0 THEN "-" ELSE ""
        fraction == IF k = 1 THEN "" ELSE "." \o SubSeq(digits, 2, k)
    IN  IF x.num = 0 THEN "0"
        ELSE IF k <= n /\ n <= 21 THEN sign \o digits \o Zeros(n - k)
        ELSE IF 0 < n /\ n <= 21
        THEN sign \o SubSeq(digits, 1, n) \o "." \o SubSeq(digits, n + 1, k)
        ELSE IF -6 < n /\ n <= 0 THEN sign \o "0." \o Zeros(-n) \o digits
        ELSE IF n > 0 THEN sign \o Char(digits, 1) \o fraction \o "e+" \o NatToString(n - 1)
        ELSE sign \o Char(digits, 1) \o fraction \o "e-" \o NatToString(1 - n)

\* ToString(value), as parseInt and parseFloat apply it to their argument
JsToString(value) ==
    CASE value.type = "string" -> value.text
      [] value.type = "undefined" -> "undefined"
      [] value.type = "null" -> "null"
      [] value.type = "number" /\ value.kind = "nan" -> "NaN"
      [] value.type = "number" /\ value.kind = "inf" ->
             IF value.sign < 0 THEN "-Infinity" ELSE "Infinity"
      [] value.type = "number" /\ value.kind = "finite" -> NumberToString(value)

\* the sign a numeral starts with, and the numeral after it
SignOf(text) == IF Len(text) > 0 /\ Char(text, 1) = "-" THEN -1 ELSE 1
Unsigned(text) ==
    IF Len(text) > 0 /\ Char(text, 1) \in {"-", "+"} THEN SubSeq(text, 2, Len(text)) ELSE text

\* parseInt(value, 10): the digits the text starts with, after white space and a
\* sign; what follows them is ignored; no digit gives NaN
parseInt(value) ==
    LET S == TrimStart(JsToString(value))
        Z == DigitPrefix(Unsigned(S))
    IN  IF Z = "" THEN [nan |-> TRUE]
        ELSE [nan |-> FALSE, num |-> SignOf(S) * DecimalValue(Z)]

Min(a, b) == IF a < b THEN a ELSE b
Max(a, b) == IF a > b THEN a ELSE b

\* a default parameter takes its default when the argument is undefined
NotGiven == [given |-> FALSE]
Given(value) == [given |-> TRUE, value |-> value]
OrDefault(argument, default) == IF argument.given THEN argument.value ELSE default

clampThreshold(value, defaultValue) ==
    LET num == parseInt(value)
    IN  IF num.nan THEN OrDefault(defaultValue, 50)
        ELSE Max(10, Min(500, num.num))

clampResetPeriod(value, defaultValue) ==
    LET num == parseInt(value)
    IN  IF num.nan THEN OrDefault(defaultValue, 30)
        ELSE Max(5, Min(300, num.num))

\* whether text starts with word
StartsWith(text, word) == Len(text) >= Len(word) /\ SubSeq(text, 1, Len(word)) = word

\* parseFloat(value): after white space and a sign, "Infinity", or digits with an
\* optional fraction and an optional exponent; what follows is ignored
parseFloat(value) ==
    LET S == TrimStart(JsToString(value))
        rest == Unsigned(S)
        whole == DigitPrefix(rest)
        afterWhole == SubSeq(rest, Len(whole) + 1, Len(rest))
        hasPoint == StartsWith(afterWhole, ".")
        fraction == IF hasPoint THEN DigitPrefix(SubSeq(afterWhole, 2, Len(afterWhole)))
                    ELSE ""
        afterMantissa == SubSeq(afterWhole, (IF hasPoint THEN 2 ELSE 1) + Len(fraction),
                                Len(afterWhole))
        hasE == StartsWith(afterMantissa, "e") \/ StartsWith(afterMantissa, "E")
        power == SubSeq(afterMantissa, 2, Len(afterMantissa))
        powerDigits == IF hasE THEN DigitPrefix(Unsigned(power)) ELSE ""
        exponent == SignOf(power) * DecimalValue(powerDigits)
    IN  IF StartsWith(rest, "Infinity") THEN Infinity(SignOf(S))
        ELSE IF whole = "" /\ fraction = "" THEN NaN
        ELSE Number(SignOf(S) * DecimalValue(whole \o fraction), exponent - Len(fraction))

RECURSIVE Pow10(_)
Pow10(n) == IF n <= 0 THEN 1 ELSE 10 * Pow10(n - 1)

\* the order of the numbers that are not NaN
Sgn(x) == IF x.kind = "inf" THEN x.sign
          ELSE IF x.num > 0 THEN 1 ELSE IF x.num < 0 THEN -1 ELSE 0
Magnitude(x) == Len(NatToString(Abs(x.num))) + x.scale
PositiveLess(x, y) ==
    LET s == Min(x.scale, y.scale)
    IN  \/ Magnitude(x) < Magnitude(y)
        \/ /\ Magnitude(x) = Magnitude(y)
           /\ Abs(x.num) * Pow10(x.scale - s) < Abs(y.num) * Pow10(y.scale - s)
Less(x, y) ==
    IF x.kind = "inf" THEN x.sign < 0 /\ ~(y.kind = "inf" /\ y.sign < 0)
    ELSE IF y.kind = "inf" THEN y.sign > 0
    ELSE IF Sgn(x) # Sgn(y) THEN Sgn(x) < Sgn(y)
    ELSE IF Sgn(x) = 0 THEN FALSE
    ELSE IF Sgn(x) > 0 THEN PositiveLess(x, y) ELSE PositiveLess(y, x)

\* Math.min and Math.max of two numbers that are not NaN
MathMin(a, b) == IF Less(b, a) THEN b ELSE a
MathMax(a, b) == IF Less(a, b) THEN b ELSE a

clampAlertDuration(value, defaultValue) ==
    LET num == parseFloat(value)
    IN  IF num.kind = "nan" THEN OrDefault(defaultValue, Number(2, 0))
        ELSE MathMax(Number(5, -1), MathMin(Number(10, 0), num))

\* the integers around the limits of the ranges, as numbers
ClampInts == UNION {(limit - Margin)..(limit + Margin) : limit \in {0, 5, 10, 300, 500}}

\* integers of 22 digits and more are numbers too
IntegerInputs ==
    {Number(num, 0) : num \in ClampInts} \cup {Number(num, 21) : num \in {-3, 1, 12}}

\* strings that are numerals, and strings that are not
NumericTexts == {"50", "100", " 42", "-7", "+20", "5.9", "1e3"}
NonNumericTexts == {"abc", "invalid", "12abc", "1.5abc", "n/a", "px50"}

ClampInputs ==
    IntegerInputs \cup {Number(55, -1), Number(1, -1), NaN, Infinity(1), Infinity(-1)}
        \cup {JsString(text) : text \in NumericTexts \cup NonNumericTexts}
        \cup {JsUndefined}

\* the second argument: not given, or a number
DefaultInputs == {NotGiven, Given(75), Given(5)}
AlertDefaultInputs == {NotGiven, Given(Number(3, 0)), Given(Number(25, -1))}

\* PRESETS with the threshold of zen below the range
PRESETS_ZenBelowRange ==
    [aggressive |-> [threshold |-> 30, resetAfterSeconds |-> 20,
                     alertMessage |-> "Voice! Now!"],
     relaxed |-> [threshold |-> 100, resetAfterSeconds |-> 60,
                  alertMessage |-> "Consider using voice input"],
     zen |-> [threshold |-> 5, resetAfterSeconds |-> 15,
              alertMessage |-> "Breathe. Speak.", voice |-> [enabled |-> TRUE]]]

PRESETS ==
    [aggressive |-> [threshold |-> 30, resetAfterSeconds |-> 20,
                     alertMessage |-> "Voice! Now!"],
     relaxed |-> [threshold |-> 100, resetAfterSeconds |-> 60,
                  alertMessage |-> "Consider using voice input"],
     zen |-> [threshold |-> 25, resetAfterSeconds |-> 15,
              alertMessage |-> "Breathe. Speak.", voice |-> [enabled |-> TRUE]]]

\* Object.keys(PRESETS): the keys in the order the literal writes them
PresetKeys == <<"aggressive", "relaxed", "zen">>

RECURSIVE Join(_, _)
Join(list, separator) ==
    IF list = <<>> THEN ""
    ELSE IF Len(list) = 1 THEN Head(list)
    ELSE Head(list) \o separator \o Join(Tail(list), separator)

\* String.prototype.toLowerCase, on the letters A to Z
UpperChars == "ABCDEFGHIJKLMNOPQRSTUVWXYZ"
LowerChars == "abcdefghijklmnopqrstuvwxyz"
LowerChar(c) ==
    IF \E i \in 1..26 : Char(UpperChars, i) = c
    THEN Char(LowerChars, CHOOSE i \in 1..26 : Char(UpperChars, i) = c)
    ELSE c

RECURSIVE toLowerCase(_)
toLowerCase(text) ==
    IF text = "" THEN ""
    ELSE LowerChar(Char(text, 1)) \o toLowerCase(SubSeq(text, 2, Len(text)))

\* applyPreset with the name looked up as it is written
applyPreset_AsWritten(cfg, presetName) ==
    LET preset == Lookup(PRESETS, presetName)
    IN  IF preset.found = "undefined"
        THEN Threw("Error", "Unknown preset: " \o presetName \o ". Available: "
                                \o Join(PresetKeys, ", "))
        ELSE IF preset.found = "own" THEN Returned(preset.value @@ cfg)
        ELSE Returned(cfg)

\* applyPreset with the spread turned round: { ...preset, ...config }
applyPreset_ConfigWins(cfg, presetName) ==
    LET preset == Lookup(PRESETS, toLowerCase(presetName))
    IN  IF preset.found = "undefined"
        THEN Threw("Error", "Unknown preset: " \o presetName \o ". Available: "
                                \o Join(PresetKeys, ", "))
        ELSE IF preset.found = "own" THEN Returned(cfg @@ preset.value)
        ELSE Returned(cfg)

\* an inherited property is a function or Object.prototype: truthy, and the
\* spread copies nothing from it
applyPreset(cfg, presetName) ==
    LET preset == Lookup(PRESETS, toLowerCase(presetName))
    IN  IF preset.found = "undefined"
        THEN Threw("Error", "Unknown preset: " \o presetName \o ". Available: "
                                \o Join(PresetKeys, ", "))
        ELSE IF preset.found = "own" THEN Returned(preset.value @@ cfg)
        ELSE Returned(cfg)

\* configs and names given to applyPreset
PresetConfigs ==
    {[enabled |-> TRUE],
     [enabled |-> TRUE, threshold |-> 50],
     [enabled |-> FALSE, threshold |-> 499, resetAfterSeconds |-> 30,
      alertMessage |-> "Use your voice!", voice |-> [enabled |-> FALSE]],
     [enabled |-> TRUE, threshold |-> 50, voice |-> [enabled |-> FALSE, rate |-> 2]]}

PresetNameInputs ==
    {"aggressive", "AGGRESSIVE", "Aggressive", "aGgReSsIvE", "relaxed", "Relaxed",
     "zen", "ZEN", "Zen", "bogus", "BOGUS", "unknown", "invalid", "", "zen ",
     "aggresive", "constructor", "Constructor", "__proto__", "toString"}

\* JavaScript values with their type: booleans, arrays of strings, and objects
\* as their own properties in insertion order
JsBool(value) == [type |-> "boolean", value |-> value]
JsArray(items) == [type |-> "array", items |-> items]
JsObject(entries) == [type |-> "object", entries |-> entries]
Entry(key, value) == [key |-> key, value |-> value]

\* { enabled: ... }, and the menuBar of the engine's defaults
VoiceObject(enabled) == JsObject(<<Entry("enabled", JsBool(enabled))>>)
MenuBarObject == JsObject(<<Entry("showCount", JsBool(FALSE)), Entry("icon", JsString("10X"))>>)

\* typeof value
TypeOf(value) ==
    IF value.type \in {"null", "array", "object"} THEN "object" ELSE value.type

\* Object.entries(value), which is also what a spread copies: the own properties
\* of an object, the elements of an array under their indices, nothing of null,
\* undefined, a number or a boolean
RECURSIVE Indexed(_, _)
Indexed(items, from) ==
    IF items = <<>> THEN <<>>
    ELSE <<Entry(NatToString(from), JsString(Head(items)))>> \o Indexed(Tail(items), from + 1)

RECURSIVE Characters(_, _)
Characters(text, from) ==
    IF text = "" THEN <<>>
    ELSE <<Entry(NatToString(from), JsString(Char(text, 1)))>>
             \o Characters(SubSeq(text, 2, Len(text)), from + 1)

OwnEntries(value) ==
    CASE value.type = "object" -> value.entries
      [] value.type = "array" -> Indexed(value.items, 0)
      [] value.type = "string" -> Characters(value.text, 0)
      [] OTHER -> <<>>

HasKey(entries, key) == \E i \in 1..Len(entries) : entries[i].key = key

\* object[key]: own properties only
Get(object, key) ==
    LET entries == OwnEntries(object)
    IN  IF HasKey(entries, key)
        THEN entries[CHOOSE i \in 1..Len(entries) : entries[i].key = key].value
        ELSE JsUndefined

\* entries after "object[key] = value": an own key keeps its place, a new one is added last
Put(entries, key, value) ==
    IF HasKey(entries, key)
    THEN [i \in 1..Len(entries) |->
              IF entries[i].key = key THEN Entry(key, value) ELSE entries[i]]
    ELSE Append(entries, Entry(key, value))

RECURSIVE PutAll(_, _)
PutAll(entries, more) ==
    IF more = <<>> THEN entries
    ELSE PutAll(Put(entries, Head(more).key, Head(more).value), Tail(more))

\* { ...a, ...b }
Spread(a, b) == JsObject(PutAll(PutAll(<<>>, OwnEntries(a)), OwnEntries(b)))

\* the loop of mergeConfig over Object.entries(overrides), from the result so far;
\* nested is what "result[key] = ..." does for an object over an object
RECURSIVE MergeEntries(_, _)
MergeEntries(result, entries) ==
    IF entries = <<>> THEN result
    ELSE LET key == Head(entries).key
             value == Head(entries).value
             mergesNested == /\ TypeOf(value) = "object"
                             /\ value.type # "array"
                             /\ TypeOf(Get(result, key)) = "object"
             assigned == IF mergesNested THEN Spread(Get(result, key), value) ELSE value
         IN  MergeEntries(IF value.type \notin {"undefined", "null"}
                          THEN JsObject(Put(result.entries, key, assigned))
                          ELSE result,
                          Tail(entries))

\* mergeConfig that merges a nested object with Object.assign(result[key], value):
\* result[key] is the object of dflts, which the call then changes
mergeConfig_AssignNested(dflts, overrides) ==
    LET result == MergeEntries(Spread(JsObject(<<>>), dflts), OwnEntries(overrides))
        nested == {i \in 1..Len(dflts.entries) :
                       /\ dflts.entries[i].value.type = "object"
                       /\ Get(overrides, dflts.entries[i].key).type = "object"}
    IN  [result |-> result,
         dflts |-> JsObject([i \in 1..Len(dflts.entries) |->
                                 IF i \in nested
                                 THEN Entry(dflts.entries[i].key,
                                            Get(result, dflts.entries[i].key))
                                 ELSE dflts.entries[i]]),
         overrides |-> overrides]

\* mergeConfig(defaults, overrides): the object it returns, and its two arguments as
\* the call leaves them; it assigns to properties of result only, a fresh object
mergeConfig(dflts, overrides) ==
    [result |-> MergeEntries(Spread(JsObject(<<>>), dflts), OwnEntries(overrides)),
     dflts |-> dflts,
     overrides |-> overrides]

\* a config written as a record, as the object it is: each field with the type
\* it has in DEFAULT_CONFIG and PRESETS, the keys in the order of FieldOrder
FieldOrder ==
    <<"enabled", "threshold", "resetAfterSeconds", "alertDurationSeconds",
      "alertMessage", "voice", "categories", "customApps", "monitoredApps", "menuBar",
      "rate", "devTools", "communication", "aiApps", "apps", "showCount", "icon">>

RECURSIVE AsJsObject(_)
AsJsValue(key, value) ==
    CASE key \in {"enabled", "showCount"} -> JsBool(value)
      [] key \in {"threshold", "resetAfterSeconds", "alertDurationSeconds", "rate"} ->
             Number(value, 0)
      [] key \in {"alertMessage", "icon"} -> JsString(value)
      [] key \in {"apps", "monitoredApps"} -> JsArray(value)
      [] OTHER -> AsJsObject(value)

RECURSIVE AsEntries(_, _)
AsEntries(record, keys) ==
    IF keys = <<>> THEN <<>>
    ELSE (IF Head(keys) \in DOMAIN record
          THEN <<Entry(Head(keys), AsJsValue(Head(keys), record[Head(keys)]))>>
          ELSE <<>>) \o AsEntries(record, Tail(keys))

AsJsObject(record) == JsObject(AsEntries(record, FieldOrder))

\* a value in a condition: undefined, null, false, 0, NaN and "" are falsy
IsTruthy(value) ==
    CASE value.type \in {"undefined", "null"} -> FALSE
      [] value.type = "boolean" -> value.value
      [] value.type = "string" -> value.text # ""
      [] value.type = "number" -> ~(value.kind = "nan" \/ (value.kind = "finite" /\ value.num = 0))
      [] OTHER -> TRUE

\* a < b of two values when a is a number: false when either is NaN
NumberLess(a, b) == a.kind # "nan" /\ b.kind # "nan" /\ Less(a, b)

\* typeof value !== 'number' || value < low || value > high
OutOfRange(value, low, high) ==
    \/ TypeOf(value) # "number"
    \/ NumberLess(value, low)
    \/ NumberLess(high, value)

\* errors.push(message) when the rule is violated
PushIf(errors, violated, message) == IF violated THEN Append(errors, message) ELSE errors

\* the loop of validateConfig over Object.entries(config.categories): the errors
\* so far with those of the categories, or the TypeError of reading .enabled of
\* an entry that is null or undefined
RECURSIVE CategoryErrors(_, _)
CategoryErrors(entries, errors) ==
    IF entries = <<>> THEN Returned(errors)
    ELSE LET categoryId == Head(entries).key
             categoryConfig == Head(entries).value
         IN  IF categoryConfig.type \in {"null", "undefined"}
             THEN Threw("TypeError", "Cannot read properties of " \o categoryConfig.type)
             ELSE CategoryErrors(Tail(entries),
                      PushIf(errors, TypeOf(Get(categoryConfig, "enabled")) # "boolean",
                             "categories." \o categoryId \o ".enabled must be a boolean"))

validateConfig(cfg) ==
    LET threshold == Get(cfg, "threshold")
        resetAfterSeconds == Get(cfg, "resetAfterSeconds")
        alertDurationSeconds == Get(cfg, "alertDurationSeconds")
        alertMessage == Get(cfg, "alertMessage")
        categories == Get(cfg, "categories")
        customApps == Get(cfg, "customApps")
        e1 == PushIf(<<>>, OutOfRange(threshold, Number(10, 0), Number(500, 0)),
                     "threshold must be a number between 10 and 500")
        e2 == PushIf(e1, OutOfRange(resetAfterSeconds, Number(5, 0), Number(300, 0)),
                     "resetAfterSeconds must be a number between 5 and 300")
        e3 == PushIf(e2, OutOfRange(alertDurationSeconds, Number(5, -1), Number(10, 0)),
                     "alertDurationSeconds must be a number between 0.5 and 10")
        e4 == PushIf(e3, TypeOf(alertMessage) # "string" \/ alertMessage.text = "",
                     "alertMessage must be a non-empty string")
        e5 == IF IsTruthy(categories) /\ TypeOf(categories) = "object"
              THEN CategoryErrors(OwnEntries(categories), e4)
              ELSE Returned(e4)
        e6 == IF IsTruthy(customApps)
              THEN PushIf(PushIf(e5.value,
                                 TypeOf(Get(customApps, "enabled")) # "boolean",
                                 "customApps.enabled must be a boolean"),
                          Get(customApps, "apps").type # "array",
                          "customApps.apps must be an array")
              ELSE e5.value
        errors == PushIf(e6, TypeOf(Get(cfg, "enabled")) # "boolean",
                         "enabled must be a boolean")
    IN  IF TypeOf(cfg) # "object" \/ cfg.type = "null"
        THEN Returned([valid |-> FALSE, errors |-> <<"Config must be an object">>])
        ELSE IF e5.threw THEN e5
        ELSE Returned([valid |-> errors = <<>>, errors |-> errors])

\* lib/config.js: DEFAULT_APPS and DEFAULT_CONFIG; the categories are built from
\* the keys of the registry, devTools the only one enabled; the icon of the
\* menu bar is the character U+1F984
DEFAULT_APPS == <<"Code", "Cursor", "Zed", "Conductor", "Terminal", "iTerm2", "Warp">>

defaultCategoryConfig ==
    [categoryId \in DOMAIN CATEGORIES_json |-> [enabled |-> categoryId = "devTools"]]

DEFAULT_CONFIG_lib ==
    [enabled |-> TRUE,
     threshold |-> 50,
     resetAfterSeconds |-> 30,
     alertDurationSeconds |-> 2,
     alertMessage |-> "Use your voice!",
     voice |-> [enabled |-> FALSE],
     categories |-> defaultCategoryConfig,
     customApps |-> [enabled |-> TRUE, apps |-> <<>>],
     monitoredApps |-> DEFAULT_APPS,
     menuBar |-> [showCount |-> FALSE, icon |-> "U+1F984"]]

\* DEFAULT_CONFIG as the object it is
DEFAULT_CONFIG_js == AsJsObject(DEFAULT_CONFIG_lib)

\* the default config after an empty merge, and with each preset applied
DefaultsDerived ==
    {mergeConfig(DEFAULT_CONFIG_js, JsObject(<<>>)).result}
        \cup {AsJsObject(applyPreset(DEFAULT_CONFIG_lib, presetName).value) :
                  presetName \in {"aggressive", "relaxed", "zen", "ZEN"}}

\* { ...cfg, [key]: value }
With(cfg, key, value) == JsObject(Put(cfg.entries, key, value))

\* the config of the test "collects multiple errors"
ManyErrorsConfig ==
    JsObject(<<Entry("threshold", Number(5, 0)),
               Entry("resetAfterSeconds", Number(1, 0)),
               Entry("alertDurationSeconds", Number(0, 0)),
               Entry("alertMessage", JsString("")),
               Entry("customApps", JsObject(<<Entry("enabled", JsString("yes")),
                                              Entry("apps", JsString("not-array"))>>)),
               Entry("enabled", JsString("yes"))>>)

\* values given to validateConfig for one field of a config
FieldValues ==
    [threshold |-> {Number(9, 0), Number(10, 0), Number(500, 0), Number(501, 0),
                    Number(1, 21), JsString("50"), NaN, Infinity(1), JsNull},
     resetAfterSeconds |-> {Number(4, 0), Number(5, 0), Number(300, 0), Number(301, 0),
                            JsUndefined, JsBool(TRUE)},
     alertDurationSeconds |-> {Number(1, -1), Number(5, -1), Number(10, 0), Number(101, -1),
                               Number(0, 0), Number(-2, 0), JsString("2")},
     alertMessage |-> {JsString(""), JsString("Speak"), Number(5, 0), JsNull},
     categories |-> {JsUndefined, JsNull, JsString("devTools"), JsObject(<<>>),
                     JsArray(<<"devTools">>),
                     JsObject(<<Entry("devTools", JsObject(<<Entry("enabled", JsString("yes"))>>)),
                                Entry("games", JsObject(<<>>)),
                                Entry("aiApps", VoiceObject(TRUE))>>),
                     JsObject(<<Entry("devTools", JsBool(TRUE))>>),
                     JsObject(<<Entry("devTools", JsNull)>>)},
     customApps |-> {JsUndefined, JsNull, JsBool(TRUE), JsString("Code"),
                     JsObject(<<Entry("enabled", JsString("yes")), Entry("apps", JsArray(<<>>))>>),
                     JsObject(<<Entry("enabled", JsBool(FALSE)), Entry("apps", JsString("Code"))>>),
                     JsObject(<<>>)},
     enabled |-> {JsBool(FALSE), JsString("true"), Number(1, 0), JsUndefined}]

\* configs given to validateConfig: values that are no object, the default
\* config, the default config with one or two fields changed, arrays
ValidateInputs ==
    {JsNull, JsUndefined, JsString("string"), Number(123, 0), JsBool(TRUE),
     JsArray(<<>>), JsObject(<<>>), DEFAULT_CONFIG_js, ManyErrorsConfig}
        \cup DefaultsDerived
        \cup {With(DEFAULT_CONFIG_js, key, value) :
                  key \in DOMAIN FieldValues, value \in UNION {FieldValues[k] : k \in DOMAIN FieldValues}}
        \cup {With(With(DEFAULT_CONFIG_js, "threshold", t), "categories", c) :
                  t \in FieldValues.threshold, c \in FieldValues.categories}

\* the persisted file ~/.vibe10x/config.json as a loader finds it
NoFile == [kind |-> "missing"]
Unparseable == [kind |-> "unparseable"]
Document(value) == [kind |-> "json", value |-> value]

\* config/default.json, the document both loaders read their defaults from
DefaultJson == DEFAULT_CONFIG_js

\* loadConfig of the setup CLI: config = { ...config, ...existingConfig }
setup_loadConfig(persisted) ==
    IF persisted.kind = "json" THEN Spread(DefaultJson, persisted.value) ELSE DefaultJson

\* loadConfig of the settings server: return { ...defaults, ...existing }
server_loadConfig(persisted) ==
    IF persisted.kind = "missing" THEN DefaultJson
    ELSE IF persisted.kind = "unparseable" THEN DefaultJson
    ELSE Spread(DefaultJson, persisted.value)

\* persisted files given to the loaders
PersistedInputs ==
    {NoFile, Unparseable}
        \cup {Document(value) :
                value \in {JsNull, JsObject(<<>>), DEFAULT_CONFIG_js, ManyErrorsConfig,
                           JsObject(<<Entry("threshold", Number(75, 0))>>),
                           JsObject(<<Entry("threshold", JsNull)>>),
                           JsObject(<<Entry("menuBar", JsObject(<<Entry("showCount", JsBool(TRUE))>>))>>),
                           JsObject(<<Entry("menuBar", JsNull)>>),
                           JsObject(<<Entry("customApps", JsObject(<<Entry("apps", JsArray(<<"Slack">>))>>))>>),
                           JsObject(<<Entry("voice", VoiceObject(TRUE)),
                                      Entry("alertMessage", JsString("Speak"))>>),
                           JsObject(<<Entry("monitoredApps", JsArray(<<"Code">>)),
                                      Entry("theme", JsString("dark"))>>)}}

\* the answers of POST /api/config
SuccessAnswer == JsObject(<<Entry("success", JsBool(TRUE))>>)
ErrorAnswer == JsObject(<<Entry("error", JsString("Unexpected token"))>>)

\* handlePostConfig with reloadHammerspoon() called after the try block
handlePostConfig_ReloadsAlways(body, persisted) ==
    IF body.kind = "json"
    THEN [status |-> 200, answer |-> SuccessAnswer, saved |-> TRUE, reloaded |-> TRUE,
          file |-> Document(body.value)]
    ELSE [status |-> 400, answer |-> ErrorAnswer, saved |-> FALSE, reloaded |-> TRUE,
          file |-> persisted]

\* the settings server's handler of POST /api/config, with config.json as the
\* request finds it: the body is parsed, saved as it is over config.json and
\* Hammerspoon is reloaded; JSON.parse throws on a body that does not parse,
\* before saveConfig and reloadHammerspoon, and the catch answers 400
handlePostConfig(body, persisted) ==
    IF body.kind = "json"
    THEN [status |-> 200, answer |-> SuccessAnswer, saved |-> TRUE, reloaded |-> TRUE,
          file |-> Document(body.value)]
    ELSE [status |-> 400, answer |-> ErrorAnswer, saved |-> FALSE, reloaded |-> FALSE,
          file |-> persisted]

\* request bodies posted to /api/config
PostBodies ==
    {Unparseable}
        \cup {Document(value) :
                value \in {JsNull, JsObject(<<>>), DEFAULT_CONFIG_js, ManyErrorsConfig,
                           With(DEFAULT_CONFIG_js, "threshold", Number(1, 0)),
                           With(DEFAULT_CONFIG_js, "threshold", Number(10, 0)),
                           With(DEFAULT_CONFIG_js, "threshold", Number(500, 0)),
                           With(DEFAULT_CONFIG_js, "threshold", Number(501, 0)),
                           With(DEFAULT_CONFIG_js, "threshold", JsString("50")),
                           With(DEFAULT_CONFIG_js, "resetAfterSeconds", Number(4, 0)),
                           With(DEFAULT_CONFIG_js, "resetAfterSeconds", Number(5, 0)),
                           With(DEFAULT_CONFIG_js, "resetAfterSeconds", Number(301, 0))}}

\* String.prototype.trim
TrimEnd(text) ==
    LET n == CHOOSE k \in 0..Len(text) :
                 /\ \A i \in (k + 1)..Len(text) : IsWhiteSpace(Char(text, i))
                 /\ k = 0 \/ ~IsWhiteSpace(Char(text, k))
    IN  SubSeq(text, 1, n)

Trim(text) == TrimEnd(TrimStart(text))

\* String.prototype.split with a separator of one character
RECURSIVE Split(_, _)
Split(text, separator) ==
    IF \E i \in 1..Len(text) : Char(text, i) = separator
    THEN LET first == CHOOSE i \in 1..Len(text) :
                          /\ Char(text, i) = separator
                          /\ \A j \in 1..(i - 1) : Char(text, j) # separator
         IN  <<SubSeq(text, 1, first - 1)>>
                 \o Split(SubSeq(text, first + 1, Len(text)), separator)
    ELSE <<text>>

parseApps(appsString) ==
    IF ~IsTruthy(appsString) \/ appsString.type # "string" THEN <<>>
    ELSE LET parts == Split(appsString.text, ",")
             trimmed == [i \in 1..Len(parts) |-> Trim(parts[i])]
         IN  SelectSeq(trimmed, LAMBDA s : s # "")

\* applyPreset on a config held as an object: { ...config, ...preset }, where
\* the own properties of the preset are what applyPreset({}, name) returns
applyPreset_js(cfg, presetName) ==
    LET own == applyPreset(NoDoc, presetName)
    IN  IF own.threw THEN own
        ELSE Returned(Spread(cfg, AsJsObject(own.value)))

\* main, "if (args.apps)": the names are added to config.customApps.apps through
\* a Set, and custom apps are enabled
WithCustomApps(cfg, newApps) ==
    LET customApps == IF IsTruthy(Get(cfg, "customApps")) THEN Get(cfg, "customApps")
                      ELSE JsObject(<<Entry("enabled", JsBool(TRUE)),
                                      Entry("apps", JsArray(<<>>))>>)
        held == Get(customApps, "apps")
        apps == IF IsTruthy(held) THEN held.items ELSE <<>>
        added == With(customApps, "apps", JsArray(InsertUnseen(<<>>, apps \o newApps)))
    IN  With(cfg, "customApps", With(added, "enabled", JsBool(TRUE)))

\* what a run of the setup CLI leaves: the exit code, the lines of log.error,
\* config.json, and whether the Lua modules are linked and init.lua requires them
Outcome(code, errors, persisted, installed) ==
    [exit |-> code, errors |-> errors, file |-> persisted, installed |-> installed]

\* main in non-interactive mode, with Hammerspoon found or not by checkPrerequisites
main(args, persisted, hammerspoon, installed) ==
    IF ~hammerspoon
    THEN Outcome(1, <<"Hammerspoon not found. Install it with: brew install hammerspoon">>,
                 persisted, installed)
    ELSE LET loaded == setup_loadConfig(persisted)
             preset == IF IsTruthy(args.preset)
                       THEN applyPreset_js(loaded, args.preset.text)
                       ELSE Returned(loaded)
         IN  IF preset.threw THEN Outcome(1, <<preset.message>>, persisted, installed)
             ELSE LET clamped == IF IsTruthy(args.threshold)
                                 THEN With(preset.value, "threshold",
                                           Number(clampThreshold(args.threshold, NotGiven), 0))
                                 ELSE preset.value
                      withApps == IF IsTruthy(args.apps)
                                  THEN WithCustomApps(clamped, parseApps(args.apps))
                                  ELSE clamped
                  IN  Outcome(0, <<>>, Document(With(withApps, "enabled", JsBool(TRUE))), TRUE)

\* setup.mjs toggleCategory, which main calls for --enable-category and
\* --disable-category before checkPrerequisites; the error line goes on to list
\* the available ids.  Assigning to __proto__ sets no property of its own
setup_toggleCategory(categoryId, enable, persisted, installed) ==
    IF Lookup(CATEGORIES_json, categoryId).found = "undefined"
    THEN Outcome(1, <<"Unknown category: " \o categoryId>>, persisted, installed)
    ELSE LET loaded == setup_loadConfig(persisted)
             held == IF IsTruthy(Get(loaded, "categories")) THEN Get(loaded, "categories")
                     ELSE JsObject(<<>>)
             set == IF categoryId = "__proto__" THEN held
                    ELSE With(held, categoryId, JsObject(<<Entry("enabled", JsBool(enable))>>))
         IN  Outcome(0, <<>>, Document(With(loaded, "categories", set)), installed)

\* the ids given to --enable-category and --disable-category
CliCategoryArgs ==
    {"devTools", "communication", "aiApps", "gaming", "DevTools", "constructor",
     "__proto__"}

\* the flags --preset, --threshold and --apps of a run, each absent or a text
CliArgs ==
    [preset : {JsUndefined} \cup {JsString(name) : name \in PresetNameInputs},
     threshold : {JsUndefined, JsString("75"), JsString("5"), JsString("abc")},
     apps : {JsUndefined, JsString("Slack, Code"), JsString(" ,")}]

\* config.json as a run of the CLI finds it
CliPersisted ==
    {NoFile, Unparseable, Document(JsObject(<<>>)), Document(DEFAULT_CONFIG_js),
     Document(JsObject(<<Entry("threshold", Number(75, 0))>>)),
     Document(JsObject(<<Entry("customApps",
                               JsObject(<<Entry("enabled", JsBool(FALSE)),
                                          Entry("apps", JsArray(<<"Slack">>))>>))>>))}

\* objects given to mergeConfig as defaults and as overrides

MergeDefaultsInputs ==
    {JsObject(<<>>),
     JsObject(<<Entry("a", Number(1, 0)), Entry("b", Number(2, 0))>>),
     JsObject(<<Entry("voice", VoiceObject(FALSE))>>),
     JsObject(<<Entry("voice", JsObject(<<Entry("enabled", JsBool(FALSE)),
                                          Entry("rate", Number(2, 0))>>)),
                Entry("threshold", Number(50, 0))>>),
     JsObject(<<Entry("apps", JsArray(<<"a", "b">>))>>),
     JsObject(<<Entry("threshold", Number(50, 0)), Entry("menuBar", MenuBarObject),
                Entry("voice", JsNull)>>),
     JsObject(<<Entry("apps", VoiceObject(TRUE)), Entry("voice", JsString("on"))>>)}

MergeOverridesInputs ==
    {JsObject(<<>>),
     JsObject(<<Entry("b", Number(3, 0)), Entry("c", Number(4, 0))>>),
     JsObject(<<Entry("voice", VoiceObject(TRUE))>>),
     JsObject(<<Entry("a", JsNull), Entry("b", JsUndefined), Entry("voice", JsNull),
                Entry("apps", JsUndefined)>>),
     JsObject(<<Entry("apps", JsArray(<<"c">>))>>),
     JsObject(<<Entry("apps", JsObject(<<Entry("x", Number(1, 0))>>))>>),
     JsObject(<<Entry("menuBar", JsObject(<<Entry("showCount", JsBool(TRUE))>>)),
                Entry("threshold", Number(100, 0))>>),
     JsObject(<<Entry("voice", JsString("off")), Entry("menuBar", JsBool(FALSE))>>),
     JsObject(<<Entry("voice", JsObject(<<Entry("enabled", JsNull),
                                          Entry("pitch", Number(1, 0))>>))>>)}

\* application names asked of isMonitoredApp; None is a window without an application
ProbeNames ==
    {"Code", "code", "Cod", "Visual Studio Code", "Code - Insiders", "Slack Helper",
     "Finder", "", None}

\* monitored-app lists as buildMonitoredAppsList leaves them in monitoredAppsCache
ProbeCaches ==
    {<<>>, <<"Code">>, <<"Slack", "Code">>, <<"Code - Insiders">>, <<"C.de">>, <<"">>,
     <<"Zed", "Terminal">>}

\* the engine's locals stay those of the unloaded module
Unloaded ==
    UNCHANGED <<config, keystrokeCount, currentApp, isMonitoring, monitoredAppsCache,
                eventTap, appWatcher, configWatcher, inactivityTimer, orphanTimers,
                onCountUpdate, menuBar, emitted, file, fileChanged, frontApp, pendingFocus,
                defaults, shared, configOps>>

LibInit ==
    /\ config = Pristine.config
    /\ keystrokeCount = Pristine.keystrokeCount
    /\ currentApp = Pristine.currentApp
    /\ isMonitoring = Pristine.isMonitoring
    /\ monitoredAppsCache = Pristine.monitoredAppsCache
    /\ eventTap = Pristine.eventTap
    /\ appWatcher = Pristine.appWatcher
    /\ configWatcher = Pristine.configWatcher
    /\ inactivityTimer = Pristine.inactivityTimer
    /\ orphanTimers = Pristine.orphanTimers
    /\ emitted = Pristine.emitted
    /\ fileChanged = Pristine.fileChanged
    /\ pendingFocus = Pristine.pendingFocus
    /\ onCountUpdate = Pristine.onCountUpdate
    /\ menuBar = 0
    /\ file = Pristine.file
    /\ frontApp = None
    /\ defaults = Pristine.defaults
    /\ shared = Pristine.shared
    /\ configOps = 0
    /\ libCall = NoCall
    /\ libResult = None

CallIsMonitoredApp ==
    /\ libCall = NoCall
    /\ \E cache \in ProbeCaches, appName \in ProbeNames :
        /\ libCall' = [fn |-> "isMonitoredApp", cache |-> cache, appName |-> appName]
        /\ libResult' = isMonitoredApp([Pristine EXCEPT !.monitoredAppsCache = cache], appName)
        /\ Unloaded

CallGetEnabledApps ==
    /\ libCall = NoCall
    /\ \E categories \in CategoriesValues, customApps \in CustomAppsValues :
        LET cfg == [categories |-> categories, customApps |-> customApps]
        IN  /\ libCall' = [fn |-> "getEnabledApps", config |-> cfg]
            /\ libResult' = getEnabledApps(cfg)
            /\ Unloaded

CallClampThreshold ==
    /\ libCall = NoCall
    /\ \E value \in ClampInputs, defaultValue \in DefaultInputs :
        /\ libCall' = [fn |-> "clampThreshold", value |-> value, defaultValue |-> defaultValue]
        /\ libResult' = clampThreshold(value, defaultValue)
        /\ Unloaded

CallClampResetPeriod ==
    /\ libCall = NoCall
    /\ \E value \in ClampInputs, defaultValue \in DefaultInputs :
        /\ libCall' = [fn |-> "clampResetPeriod", value |-> value, defaultValue |-> defaultValue]
        /\ libResult' = clampResetPeriod(value, defaultValue)
        /\ Unloaded

CallClampAlertDuration ==
    /\ libCall = NoCall
    /\ \E value \in ClampInputs, defaultValue \in AlertDefaultInputs :
        /\ libCall' = [fn |-> "clampAlertDuration", value |-> value, defaultValue |-> defaultValue]
        /\ libResult' = clampAlertDuration(value, defaultValue)
        /\ Unloaded

CallMergeConfig ==
    /\ libCall = NoCall
    /\ \E dflts \in MergeDefaultsInputs, overrides \in MergeOverridesInputs :
        /\ libCall' = [fn |-> "mergeConfig", dflts |-> dflts, overrides |-> overrides]
        /\ libResult' = mergeConfig(dflts, overrides)
        /\ Unloaded

CallValidateConfig ==
    /\ libCall = NoCall
    /\ \E cfg \in ValidateInputs :
        /\ libCall' = [fn |-> "validateConfig", config |-> cfg]
        /\ libResult' = validateConfig(cfg)
        /\ Unloaded

CallApplyPreset ==
    /\ libCall = NoCall
    /\ \E cfg \in PresetConfigs, presetName \in PresetNameInputs :
        /\ libCall' = [fn |-> "applyPreset", config |-> cfg, presetName |-> presetName]
        /\ libResult' = applyPreset(cfg, presetName)
        /\ Unloaded

CallLoadConfig ==
    /\ libCall = NoCall
    /\ \E loader \in {"setup", "server"}, persisted \in PersistedInputs :
        /\ libCall' = [fn |-> "loadConfig", loader |-> loader, persisted |-> persisted]
        /\ libResult' = IF loader = "setup" THEN setup_loadConfig(persisted)
                                            ELSE server_loadConfig(persisted)
        /\ Unloaded

CallPostConfig ==
    /\ libCall = NoCall
    /\ \E body \in PostBodies, persisted \in CliPersisted :
        /\ libCall' = [fn |-> "POST /api/config", body |-> body, persisted |-> persisted]
        /\ libResult' = handlePostConfig(body, persisted)
        /\ Unloaded

\* a run of the CLI whose flags select the non-interactive mode
CallMain ==
    /\ libCall = NoCall
    /\ \E args \in CliArgs, persisted \in CliPersisted, hammerspoon \in BOOLEAN,
          installed \in BOOLEAN :
        /\ IsTruthy(args.threshold) \/ IsTruthy(args.apps) \/ IsTruthy(args.preset)
        /\ libCall' = [fn |-> "main", args |-> args, persisted |-> persisted,
                       hammerspoon |-> hammerspoon, installed |-> installed]
        /\ libResult' = main(args, persisted, hammerspoon, installed)
        /\ Unloaded

\* a run of the CLI with --enable-category or --disable-category
CallToggleCategory ==
    /\ libCall = NoCall
    /\ \E categoryId \in CliCategoryArgs, enable \in BOOLEAN, persisted \in CliPersisted,
          installed \in BOOLEAN :
        /\ libCall' = [fn |-> "toggleCategory", categoryId |-> categoryId,
                       enable |-> enable, persisted |-> persisted, installed |-> installed]
        /\ libResult' = setup_toggleCategory(categoryId, enable, persisted, installed)
        /\ Unloaded

\* the call returns to its caller
LibReturn ==
    /\ libCall # NoCall
    /\ libCall' = NoCall
    /\ libResult' = None
    /\ Unloaded

LibNext ==
    \/ CallIsMonitoredApp
    \/ CallGetEnabledApps
    \/ CallClampThreshold
    \/ CallClampResetPeriod
    \/ CallClampAlertDuration
    \/ CallApplyPreset
    \/ CallMergeConfig
    \/ CallValidateConfig
    \/ CallLoadConfig
    \/ CallPostConfig
    \/ CallMain
    \/ CallToggleCategory
    \/ LibReturn

LibSpec == LibInit /\ [][LibNext]_vars

----------------------------------------------------------------------------
(* Vocabulary of the properties.  A property of a handler is stated of the    *)
(* locals the handler leaves when it runs from a reachable state: every       *)
(* handler can run in every state in which its subscription is active.        *)

HasKind(seq, kind) == \E i \in 1..Len(seq) : seq[i].kind = kind

IsCountOrNudge(e) == e.kind \in {"count", "nudge"}

\* the count notifications and alert fires among what a handler sent, in order
Observed(seq) == SelectSeq(seq, IsCountOrNudge)

EndsWith(seq, e) == Len(seq) > 0 /\ seq[Len(seq)] = e

PendingTimersOf(s) == s.orphanTimers + (IF s.inactivityTimer = "pending" THEN 1 ELSE 0)

\* the locals a handler must not touch when it is to change nothing
Untouched(s, t) == [t EXCEPT !.emitted = s.emitted] = s

\* a key event the engine counts: enabled, monitored app in front, no modifier, key not ignored
KeyAccepted(flags, keyCode) ==
    /\ Truthy(config, "enabled")
    /\ currentApp # None
    /\ \E i \in 1..Len(monitoredAppsCache) : PlainFind(currentApp, monitoredAppsCache[i])
    /\ ~(flags.cmd \/ flags.ctrl \/ flags.alt)
    /\ keyCode \notin ignoredKeyCodes

\* the application watcher delivers the pending focus event e
AppEventStep(e) ==
    /\ appWatcher > 0
    /\ e \in pendingFocus
    /\ Commit(handleAppEvent([Engine EXCEPT !.pendingFocus = @ \ {e}], e.app, e.type))

----------------------------------------------------------------------------
(* Properties *)

\* C1: the keystroke count is never negative, and a handler that fired the
\* nudge alert (showNudge) has left the count at 0 when it returns, whether or
\* not the alert is spoken.
C1_CountResetWithAlert ==
    /\ keystrokeCount >= 0
    /\ HasKind(emitted, "nudge") => keystrokeCount = 0

C1_Witness ==
    /\ isMonitoring
    /\ HasKind(emitted, "nudge")
    /\ HasKind(emitted, "say")
    /\ keystrokeCount = 0

\* C2 as stated: with a listener registered and threshold t >= 1, an accepted key
\* event that brings the count to k < t sends the notification k and no alert,
\* and the one that brings it to t sends the alert and then the notification 0
\* (the notifications of t key events from count 0 are 1 .. t-1, alert, 0).
C2_AsStated ==
    \A flags \in KeyFlags, keyCode \in KeyCodes :
        (/\ eventTap > 0
         /\ KeyAccepted(flags, keyCode)
         /\ onCountUpdate
         /\ config.threshold >= 1
         /\ keystrokeCount < config.threshold)
        => Observed(handleKeystroke(Engine, flags, keyCode).emitted) =
               IF keystrokeCount + 1 < config.threshold
               THEN <<CountUpdate(keystrokeCount + 1)>>
               ELSE <<Nudge(config.threshold, config.alertMessage), CountUpdate(0)>>

\* C2 amended: as C2, but the key event that brings the count to t first sends
\* the notification t, then the alert, then the notification 0 (the
\* notifications of t key events from count 0 are 1 .. t, alert, 0); no alert
\* fires before the t-th event.
C2_NotificationsUpToThreshold ==
    \A flags \in KeyFlags, keyCode \in KeyCodes :
        (/\ eventTap > 0
         /\ KeyAccepted(flags, keyCode)
         /\ onCountUpdate
         /\ config.threshold >= 1
         /\ keystrokeCount < config.threshold)
        => Observed(handleKeystroke(Engine, flags, keyCode).emitted) =
               IF keystrokeCount + 1 < config.threshold
               THEN <<CountUpdate(keystrokeCount + 1)>>
               ELSE <<CountUpdate(config.threshold),
                      Nudge(config.threshold, config.alertMessage),
                      CountUpdate(0)>>

\* the t-th key event of a run has been handled, t >= 2
C2_Witness ==
    /\ isMonitoring
    /\ config.threshold >= 2
    /\ Observed(emitted) = <<CountUpdate(config.threshold),
                             Nudge(config.threshold, config.alertMessage),
                             CountUpdate(0)>>

\* C3: a key event is rejected when the configuration is disabled, or the
\* current app is none or matches no monitored pattern, or cmd, ctrl or alt is
\* held, or the key code is ignored; a rejected key event changes neither the
\* count, the timer, currentApp, the run state nor any other local, and sends
\* no notification, no alert and no speech: only the pass-through value.
C3_RejectedKeyChangesNothing ==
    \A flags \in KeyFlags, keyCode \in KeyCodes :
        (/\ eventTap > 0
         /\ \/ ~Truthy(config, "enabled")
            \/ currentApp = None
            \/ ~\E i \in 1..Len(monitoredAppsCache) :
                   PlainFind(currentApp, monitoredAppsCache[i])
            \/ flags.cmd \/ flags.ctrl \/ flags.alt
            \/ keyCode \in ignoredKeyCodes)
        => LET after == handleKeystroke(Engine, flags, keyCode)
           IN  /\ Untouched(Engine, after)
               /\ after.emitted = <<Return(FALSE)>>

\* a key event was handled with a listener registered and a monitored app in
\* front, and nothing but the pass-through value came out: it was rejected
\* for its modifier or its key code, with a count and a timer to disturb
C3_Witness ==
    /\ isMonitoring
    /\ onCountUpdate
    /\ emitted = <<Return(FALSE)>>
    /\ isMonitoredApp(Engine, currentApp)
    /\ keystrokeCount > 0
    /\ inactivityTimer = "pending"

\* C4: when the focus goes from a monitored application to one that is not
\* monitored, the count is 0 once the activated event of the new application
\* has been handled, in whatever order the watcher delivers the two events.
C4_LeavingMonitoredAppResets ==
    [][\A e \in pendingFocus :
          (/\ e.type = "activated"
           /\ isMonitoredApp(Engine, e.from)
           /\ ~isMonitoredApp(Engine, e.app)
           /\ AppEventStep(e))
          => keystrokeCount' = 0]_vars

\* C5: a non-zero count is always backed by the scheduled inactivity timer;
\* that timer's expiry sets the count to 0, notifies the listener of 0 and
\* changes neither the run state nor currentApp; and, timer expiry being
\* fair, a non-zero count eventually becomes 0.
C5_InactivityReset ==
    /\ [](keystrokeCount # 0 => inactivityTimer = "pending")
    /\ [](inactivityTimer = "pending" =>
             LET after == timerFired(Engine, "held")
             IN  /\ after.keystrokeCount = 0
                 /\ after.isMonitoring = isMonitoring
                 /\ after.currentApp = currentApp
                 /\ after.emitted = IF onCountUpdate THEN <<CountUpdate(0)>> ELSE <<>>)
    /\ (keystrokeCount # 0) ~> (keystrokeCount = 0)

\* the timer has expired in a running engine and the listener was told 0
C5_Witness ==
    /\ isMonitoring
    /\ inactivityTimer = "dead"
    /\ emitted = <<CountUpdate(0)>>
    /\ keystrokeCount = 0

\* C6: at most one inactivity timer is pending in every reachable state, and
\* rescheduling it (as every accepted key event does) leaves exactly the new
\* timer pending: the previous one is stopped, never left to fire.
C6_AtMostOneTimer ==
    /\ PendingTimersOf(Engine) <= 1
    /\ PendingTimersOf(resetInactivityTimer(Engine)) = 1

\* a second key event was accepted while the timer of the first was pending
C6_Witness ==
    /\ isMonitoring
    /\ keystrokeCount >= 2
    /\ inactivityTimer = "pending"

\* C7: stop() from any reachable state leaves no inactivity timer pending, the
\* key event tap, the application watcher and the config watcher released,
\* the count 0 and the engine Stopped; a second stop() changes none of that.
C7_StopReleasesEverything ==
    LET after == stop(Engine)
        again == stop([after EXCEPT !.emitted = <<>>])
    IN  /\ after.inactivityTimer = "nil"
        /\ PendingTimersOf(after) = 0
        /\ after.eventTap = 0
        /\ after.appWatcher = 0
        /\ after.configWatcher = 0
        /\ after.keystrokeCount = 0
        /\ ~after.isMonitoring
        /\ Untouched([after EXCEPT !.emitted = <<>>], again)

\* stop() has run
C7_Witness ==
    /\ EndsWith(emitted, Log("Stopped"))
    /\ ~isMonitoring
    /\ eventTap = 0
    /\ inactivityTimer = "nil"

\* C8: start() on a Running engine changes no local (no second event tap or
\* watcher); start() on a Stopped engine whose loaded configuration has
\* enabled = false leaves the engine Stopped with no subscription.
C8_StartGuards ==
    \A order \in CategoryOrders :
        LET after == start(Engine, file, frontApp, order)
        IN  /\ isMonitoring => Untouched(Engine, after)
            /\ (~isMonitoring /\ ~Truthy(after.config, "enabled")) =>
                   /\ ~after.isMonitoring
                   /\ after.eventTap = 0
                   /\ after.appWatcher = 0
                   /\ after.configWatcher = 0

\* start() has run on a Running engine that holds a count and a timer
C8_Witness ==
    /\ emitted = <<Log("Already running")>>
    /\ isMonitoring
    /\ keystrokeCount > 0
    /\ inactivityTimer = "pending"

\* C9: toggle() always flips the run state: Running becomes Stopped and
\* Stopped becomes Running, whatever config.json contains.
C9_ToggleFlips ==
    [][Toggle => (isMonitoring' = ~isMonitoring)]_vars

\* C10: reload() leaves the configuration loaded from config.json and the
\* monitored-app set built from it; on a Stopped engine it leaves the engine
\* Stopped; on a Running engine it leaves it Running if and only if the loaded
\* configuration has enabled = true, and the count is 0 either way.
C10_Reload ==
    \A order \in CategoryOrders :
        LET after == reload(Engine, file, frontApp, order)
            loaded == IF file.state = "ok" THEN MergeDefaults(defaults, file.doc) ELSE defaults
        IN  /\ after.config = loaded
            /\ after.monitoredAppsCache = buildMonitoredAppsList(loaded, order)
            /\ ~isMonitoring => ~after.isMonitoring
            /\ isMonitoring =>
                   /\ after.isMonitoring <=> Truthy(loaded, "enabled")
                   /\ after.keystrokeCount = 0

\* reload() has stopped a Running engine and, the loaded configuration being
\* disabled, not started it again
C10_Witness ==
    /\ EndsWith(emitted, Log("Configuration reloaded"))
    /\ \E i \in 1..Len(emitted) : emitted[i] = Log("Stopped")
    /\ ~isMonitoring
    /\ ~Truthy(config, "enabled")

\* C11: reset() sets the count to 0 and sends the listener, when one is
\* registered, exactly one count notification, of 0; it changes neither the
\* run state, currentApp, the configuration, the monitored-app set, the
\* subscriptions nor the timer.
C11_ResetFrame ==
    LET after == reset(Engine)
    IN  /\ after.keystrokeCount = 0
        /\ Observed(after.emitted) = IF onCountUpdate THEN <<CountUpdate(0)>> ELSE <<>>
        /\ Untouched([Engine EXCEPT !.keystrokeCount = 0], after)

\* reset() has run on a Running engine with a listener, while the timer of a
\* counted key was pending
C11_Witness ==
    /\ emitted = <<CountUpdate(0), Log("Counter reset")>>
    /\ isMonitoring
    /\ inactivityTimer = "pending"
    /\ keystrokeCount = 0

\* C12: the key-event handler never consumes an event: on every path
\* (disabled, unmonitored app, modifier held, ignored key, counted, counted
\* with alert) the one value it returns is the pass-through value false.
C12_NeverConsumes ==
    \A flags \in KeyFlags, keyCode \in KeyCodes :
        LET out == handleKeystroke(Engine, flags, keyCode).emitted
        IN  /\ EndsWith(out, Return(FALSE))
            /\ \A i \in 1..Len(out) : out[i].kind = "return" => i = Len(out)

\* a key event was counted, fired the alert, and was passed through
C12_Witness ==
    /\ HasKind(emitted, "nudge")
    /\ EndsWith(emitted, Return(FALSE))
    /\ eventTap > 0

\* the members of a list
Members(list) == {list[i] : i \in 1..Len(list)}

\* the apps of every registry category the configuration enables, and the
\* custom apps when the configuration enables them
EnabledAppSet(cfg) ==
    UNION {Members(CATEGORIES[id].apps) :
              id \in {c \in DOMAIN CATEGORIES :
                         /\ "categories" \in DOMAIN cfg
                         /\ c \in DOMAIN cfg.categories
                         /\ Truthy(cfg.categories[c], "enabled")}}
    \cup (IF /\ "customApps" \in DOMAIN cfg
              /\ Truthy(cfg.customApps, "enabled")
              /\ "apps" \in DOMAIN cfg.customApps
           THEN Members(cfg.customApps.apps)
           ELSE {})

\* C13: after every operation that loads or edits the configuration, the
\* monitored-app list the handlers use holds exactly the apps of the
\* categories enabled in the in-memory configuration and, when custom apps
\* are enabled, the custom apps, each once.
C13_MonitoredSetDerived ==
    /\ Members(monitoredAppsCache) = EnabledAppSet(config)
    /\ Cardinality(Members(monitoredAppsCache)) = Len(monitoredAppsCache)

\* addCustomApp("Code") has run while the devTools category, which lists
\* "Code" too, was enabled
C13_Witness ==
    /\ configOps > 0
    /\ EndsWith(emitted, Return(TRUE))
    /\ Truthy(config.categories.devTools, "enabled")
    /\ Truthy(config.customApps, "enabled")
    /\ Contains(config.customApps.apps, "Code")

\* pattern stands in name between some head and some tail, character for character
OccursIn(pattern, name) ==
    \E i \in 0..Len(name), j \in 0..Len(name) :
        /\ i <= j
        /\ name = SubSeq(name, 1, i) \o pattern \o SubSeq(name, j + 1, Len(name))

\* C14: isMonitoredApp(name) is true exactly when name is not nil and some
\* pattern of the monitored-app list occurs in name as a contiguous substring,
\* letter case included: "Visual Studio Code" matches "Code", "code" does not,
\* and "C.de" and "Code - Insiders" are taken literally, not as Lua patterns
C14_SubstringMatch ==
    libCall.fn = "isMonitoredApp" =>
        libResult = (/\ libCall.appName # None
                     /\ \E i \in 1..Len(libCall.cache) :
                            OccursIn(libCall.cache[i], libCall.appName))

C14_Witness ==
    /\ libCall.fn = "isMonitoredApp"
    /\ libCall.appName = "Visual Studio Code"
    /\ libCall.cache = <<"Slack", "Code">>
    /\ libResult = TRUE

\* a config of the Config type: every category entry is {enabled: boolean} or {},
\* customApps is absent or {enabled: boolean, apps: array}
WellTyped(cfg) ==
    /\ cfg.categories.type = "object" =>
           \A i \in 1..Len(cfg.categories.entries) :
               LET entry == cfg.categories.entries[i].entry
               IN  entry.type = "object" /\ entry.enabled \in {"true", "false", "undefined"}
    /\ cfg.customApps.type # "undefined" =>
           /\ cfg.customApps.type = "object"
           /\ cfg.customApps.enabled \in {"true", "false"}
           /\ cfg.customApps.apps.type = "array"

\* the apps of the registry categories enabled in cfg, and the custom apps when enabled
EnabledAppsOf(cfg) ==
    LET entries == IF cfg.categories.type = "object" THEN cfg.categories.entries ELSE <<>>
        chosen == {i \in 1..Len(entries) :
                       /\ entries[i].id \in DOMAIN CATEGORIES_json
                       /\ entries[i].entry.enabled = "true"}
        custom == IF cfg.customApps.type = "object" /\ cfg.customApps.enabled = "true"
                  THEN Members(cfg.customApps.apps.items) ELSE {}
    IN  UNION {Members(CATEGORIES_json[entries[i].id].apps) : i \in chosen} \cup custom

C16_NeverFails ==
    libCall.fn = "getEnabledApps" => ~libResult.threw

\* the value of an integer given as a number, brought into [low, high]
ClampedInteger(x, low, high) ==
    IF x.scale = 0 THEN (IF x.num < low THEN low ELSE IF x.num > high THEN high ELSE x.num)
    ELSE IF x.num > 0 THEN high ELSE low

\* inputs that are not numeric: undefined, NaN, and the strings that are no numerals
NonNumeric(value) ==
    \/ value.type = "undefined"
    \/ value = NaN
    \/ value.type = "string" /\ value.text \in NonNumericTexts

\* C17: for every integer t, clampThreshold(t) is t when 10 <= t <= 500, 10
\* when t < 10 and 500 when t > 500; for every non-numeric input (non-numeric
\* string, undefined, NaN) it is the supplied default, or 50 when none is supplied
C17_ClampThreshold ==
    libCall.fn = "clampThreshold" =>
        /\ libCall.value \in IntegerInputs =>
               libResult = ClampedInteger(libCall.value, 10, 500)
        /\ NonNumeric(libCall.value) => libResult = OrDefault(libCall.defaultValue, 50)

\* a number that is not NaN
IsNumber(value) == value.type = "number" /\ value.kind # "nan"

\* x brought into [low, high], for numbers that are not NaN
Clamped(x, low, high) == IF Less(x, low) THEN low ELSE IF Less(high, x) THEN high ELSE x

\* C18: clampResetPeriod and clampAlertDuration return a value inside their
\* closed range for every numeric input: clampResetPeriod(x) is max(5, min(300, x))
\* for integers x, clampAlertDuration(x) is max(0.5, min(10, x)); on non-numeric
\* input they return their default (30 and 2 unless supplied)
C18_ClampPeriodAndDuration ==
    /\ libCall.fn = "clampResetPeriod" =>
           /\ libCall.value \in IntegerInputs =>
                  libResult = ClampedInteger(libCall.value, 5, 300)
           /\ IsNumber(libCall.value) => 5 <= libResult /\ libResult <= 300
           /\ NonNumeric(libCall.value) => libResult = OrDefault(libCall.defaultValue, 30)
    /\ libCall.fn = "clampAlertDuration" =>
           /\ IsNumber(libCall.value) =>
                  LET expected == Clamped(libCall.value, Number(5, -1), Number(10, 0))
                  IN  ~Less(libResult, expected) /\ ~Less(expected, libResult)
           /\ NonNumeric(libCall.value) =>
                  libResult = OrDefault(libCall.defaultValue, Number(2, 0))

\* C19: applyPreset is case-insensitive in the preset name: a name written in
\* any mixture of upper- and lower-case letters gives what the lower-case name
\* gives, the same config for a preset and a failure for a name that is none
C19_CaseInsensitive ==
    libCall.fn = "applyPreset" =>
        LET lower == applyPreset(libCall.config, toLowerCase(libCall.presetName))
        IN  /\ libResult.threw = lower.threw
            /\ ~libResult.threw => libResult.value = lower.value

C19_Witness ==
    /\ libCall.fn = "applyPreset"
    /\ libCall.presetName = "aGgReSsIvE"
    /\ libCall.config = [enabled |-> TRUE, threshold |-> 50]
    /\ ~libResult.threw
    /\ libResult.value = [enabled |-> TRUE, threshold |-> 30, resetAfterSeconds |-> 20,
                          alertMessage |-> "Voice! Now!"]

\* C20: with a name that is not, letter case aside, one of aggressive, relaxed
\* and zen, applyPreset fails with an error whose message contains
\* "Unknown preset: <name>" and lists "aggressive, relaxed, zen"; it returns no config
C20_UnknownPresetFails ==
    (/\ libCall.fn = "applyPreset"
     /\ toLowerCase(libCall.presetName) \notin {"aggressive", "relaxed", "zen"}) =>
        /\ libResult.threw
        /\ OccursIn("Unknown preset: " \o libCall.presetName, libResult.message)
        /\ OccursIn("aggressive, relaxed, zen", libResult.message)

\* the own keys of an object
KeysOf(object) == {OwnEntries(object)[i].key : i \in 1..Len(OwnEntries(object))}

\* a value that is a mapping and no array
IsMapping(value) == value.type = "object"

\* C22: mergeConfig(defaults, overrides) leaves defaults and overrides as they
\* were; for every key whose value is a nested object in both, the result's
\* sub-keys are those of both, with the value of overrides where both have the
\* sub-key; for every key whose override is null or undefined the result keeps
\* the value of defaults
C22_MergeConfig ==
    libCall.fn = "mergeConfig" =>
        LET dflts == libCall.dflts
            overrides == libCall.overrides
            result == libResult.result
        IN  /\ libResult.dflts = dflts
            /\ libResult.overrides = overrides
            /\ \A key \in KeysOf(overrides) :
                   LET base == Get(dflts, key)
                       over == Get(overrides, key)
                       merged == Get(result, key)
                   IN  /\ (IsMapping(base) /\ IsMapping(over)) =>
                              /\ IsMapping(merged)
                              /\ KeysOf(merged) = KeysOf(base) \cup KeysOf(over)
                              /\ \A sub \in KeysOf(merged) :
                                     Get(merged, sub) = IF sub \in KeysOf(over)
                                                        THEN Get(over, sub)
                                                        ELSE Get(base, sub)
                       /\ over.type \in {"null", "undefined"} => merged = base

C22_Witness ==
    /\ libCall.fn = "mergeConfig"
    /\ KeysOf(Get(libCall.dflts, "voice")) = {"enabled", "rate"}
    /\ KeysOf(Get(libCall.overrides, "voice")) = {"enabled", "pitch"}
    /\ Get(libResult.result, "voice") =
           JsObject(<<Entry("enabled", JsNull), Entry("rate", Number(2, 0)),
                      Entry("pitch", Number(1, 0))>>)
    /\ Get(libResult.result, "threshold") = Number(50, 0)

\* C23: mergeConfig merges one level deep only for keys whose value is a
\* non-array mapping in both; in every other case (either side an array, a
\* scalar or null) a defined non-null override replaces the base value whole
C23_OneLevelOnly ==
    libCall.fn = "mergeConfig" =>
        \A key \in KeysOf(libCall.overrides) :
            LET base == Get(libCall.dflts, key)
                over == Get(libCall.overrides, key)
            IN  (/\ over.type \notin {"null", "undefined"}
                 /\ ~(IsMapping(base) /\ IsMapping(over))) =>
                    Get(libResult.result, key) = over

\* a value with the properties of its objects as mappings, their order left out
RECURSIVE Unordered(_)
Unordered(value) ==
    IF value.type = "object"
    THEN [type |-> "object",
          props |-> [key \in KeysOf(value) |-> Unordered(Get(value, key))]]
    ELSE value

\* what mergeConfig makes of a config and a preset, both written as records
MergedPreset(cfg, preset) == mergeConfig(AsJsObject(cfg), AsJsObject(preset)).result

\* no mapping of cfg has a sub-key that the preset's mapping under the same key lacks
NestedCovered(cfg, preset) ==
    "voice" \in DOMAIN cfg \cap DOMAIN preset => DOMAIN cfg.voice \subseteq DOMAIN preset.voice

\* C21 as first stated: for every config and every valid preset name,
\* applyPreset(config, name) equals mergeConfig(config, PRESETS[name]), the
\* sub-keys of a nested mapping that the preset sets only partly included
C21_EqualsMergeConfig ==
    (libCall.fn = "applyPreset" /\ toLowerCase(libCall.presetName) \in DOMAIN PRESETS) =>
        /\ ~libResult.threw
        /\ Unordered(AsJsObject(libResult.value))
               = Unordered(MergedPreset(libCall.config, PRESETS[toLowerCase(libCall.presetName)]))

\* C21: for every config and every valid preset name, applyPreset(config, name)
\* is the shallow spread of the preset over the config: each top-level key of
\* the preset has the preset's value whole, every other top-level key of the
\* config survives unchanged; it equals mergeConfig(config, PRESETS[name]) when
\* no nested mapping of the config has a sub-key the preset's mapping lacks
C21_ShallowSpread ==
    (libCall.fn = "applyPreset" /\ toLowerCase(libCall.presetName) \in DOMAIN PRESETS) =>
        LET cfg == libCall.config
            preset == PRESETS[toLowerCase(libCall.presetName)]
        IN  /\ ~libResult.threw
            /\ DOMAIN libResult.value = DOMAIN cfg \cup DOMAIN preset
            /\ \A key \in DOMAIN preset : libResult.value[key] = preset[key]
            /\ \A key \in DOMAIN cfg \ DOMAIN preset : libResult.value[key] = cfg[key]
            /\ NestedCovered(cfg, preset) =>
                   Unordered(AsJsObject(libResult.value)) = Unordered(MergedPreset(cfg, preset))

C21_Witness ==
    /\ libCall.fn = "applyPreset"
    /\ libCall.presetName = "zen"
    /\ libCall.config = [enabled |-> TRUE, threshold |-> 50,
                         voice |-> [enabled |-> FALSE, rate |-> 2]]
    /\ ~libResult.threw
    /\ libResult.value.voice = [enabled |-> TRUE]
    /\ libResult.value.threshold = 25
    /\ libResult.value.enabled

\* a number inside [low, high]
InRange(value, low, high) ==
    /\ value.type = "number"
    /\ value.kind = "finite"
    /\ ~Less(value, low)
    /\ ~Less(high, value)

HasBoolean(value, key) == Get(value, key).type = "boolean"

\* the rules of validateConfig that a config object violates, counted
ViolatedRules(cfg) ==
    LET categories == Get(cfg, "categories")
        customApps == Get(cfg, "customApps")
        entries == IF TypeOf(categories) = "object" THEN OwnEntries(categories) ELSE <<>>
        scalar == {rule \in {"threshold", "resetAfterSeconds", "alertDurationSeconds",
                            "alertMessage", "enabled"} :
                      CASE rule = "threshold" ->
                               ~InRange(Get(cfg, rule), Number(10, 0), Number(500, 0))
                        [] rule = "resetAfterSeconds" ->
                               ~InRange(Get(cfg, rule), Number(5, 0), Number(300, 0))
                        [] rule = "alertDurationSeconds" ->
                               ~InRange(Get(cfg, rule), Number(5, -1), Number(10, 0))
                        [] rule = "alertMessage" ->
                               ~(Get(cfg, rule).type = "string" /\ Get(cfg, rule).text # "")
                        [] rule = "enabled" -> ~HasBoolean(cfg, "enabled")}
        ofCategories == {i \in 1..Len(entries) : ~HasBoolean(entries[i].value, "enabled")}
        ofCustomApps == IF IsTruthy(customApps)
                        THEN {rule \in {"enabled", "apps"} :
                                  IF rule = "enabled" THEN ~HasBoolean(customApps, "enabled")
                                  ELSE Get(customApps, "apps").type # "array"}
                        ELSE {}
    IN  Cardinality(scalar) + Cardinality(ofCategories) + Cardinality(ofCustomApps)

\* C24: validateConfig returns a {valid, errors} pair for every input: one error
\* for an input that is no object; otherwise one error for every violated rule,
\* not only the first; and valid is true exactly when there is no error
C24_ValidateConfig ==
    libCall.fn = "validateConfig" =>
        /\ ~libResult.threw
        /\ libResult.value.valid <=> libResult.value.errors = <<>>
        /\ IF TypeOf(libCall.config) = "object" /\ libCall.config.type # "null"
           THEN Len(libResult.value.errors) = ViolatedRules(libCall.config)
           ELSE Len(libResult.value.errors) = 1

\* C25: the built-in default configuration is valid and stays valid through an
\* empty merge: validateConfig(mergeConfig(DEFAULT_CONFIG, {})) is valid with no
\* error, and so is DEFAULT_CONFIG with any preset applied
C25_DefaultsValid ==
    (libCall.fn = "validateConfig" /\ libCall.config \in DefaultsDerived) =>
        /\ ~libResult.threw
        /\ libResult.value = [valid |-> TRUE, errors |-> <<>>]

C25_Witness ==
    /\ libCall.fn = "validateConfig"
    /\ libCall.config = AsJsObject(applyPreset(DEFAULT_CONFIG_lib, "zen").value)
    /\ Get(libCall.config, "threshold") = Number(25, 0)
    /\ Get(libCall.config, "categories") # JsUndefined
    /\ libResult.value.valid

\* a value a persisted key does not override the default with
Ignored(value) == value \in {JsUndefined, JsNull}

\* C26: the loaders of the setup CLI and of the settings server return the
\* defaults overridden by the persisted document: a persisted key with a
\* non-null value wins, a persisted key whose value is null keeps the default,
\* and an absent key, also a sub-key of a nested mapping, takes its default
C26_LoadersMerge ==
    libCall.fn = "loadConfig" =>
        LET persisted == libCall.persisted
            document == IF persisted.kind = "json" THEN persisted.value ELSE JsObject(<<>>)
        IN  \A key \in KeysOf(DefaultJson) \cup KeysOf(document) :
                LET default == Get(DefaultJson, key)
                    stored == Get(document, key)
                    loaded == Get(libResult, key)
                IN  IF Ignored(stored) THEN loaded = default
                    ELSE IF IsMapping(stored) /\ IsMapping(default)
                    THEN \A sub \in KeysOf(default) \cup KeysOf(stored) :
                            Get(loaded, sub) = IF Ignored(Get(stored, sub))
                                               THEN Get(default, sub)
                                               ELSE Get(stored, sub)
                    ELSE loaded = stored

\* the last handler ran loadConfig and found no configuration it could parse
FellBackToDefaults ==
    \E i \in 1..Len(emitted) :
        emitted[i] \in {Log("Config not found, using defaults"),
                        Log("Failed to parse config, using defaults")}

\* C27: a missing or unparseable config.json is not fatal: loadConfig then holds
\* the built-in default configuration, after any earlier sequence of engine
\* operations, and those operations never alter the built-in defaults
C27_DefaultsOnBadFile ==
    /\ defaults = DEFAULT_CONFIG
    /\ FellBackToDefaults => config = DEFAULT_CONFIG

\* C28: after every engine operation that edits the in-memory configuration
\* and whose write of config.json succeeded, the persisted document equals the
\* in-memory configuration
C28_PersistedAfterMutation ==
    [][(configOps' = configOps + 1 /\ file' # file) =>
           (file'.state = "ok" /\ file'.doc = config')]_vars

\* the value a document holds under key is absent or a number of low .. high
AbsentOrInRange(document, key, low, high) ==
    IsMapping(document) =>
        \/ Get(document, key) = JsUndefined
        \/ InRange(Get(document, key), Number(low, 0), Number(high, 0))

\* C29: every configuration that a configuration writer persists has
\* 10 <= threshold <= 500 and 5 <= resetAfterSeconds <= 300; here the writer is
\* the settings server's POST /api/config
C29_PersistedInRange ==
    (libCall.fn = "POST /api/config" /\ libResult.saved) =>
        /\ AbsentOrInRange(libResult.file.value, "threshold", 10, 500)
        /\ AbsentOrInRange(libResult.file.value, "resetAfterSeconds", 5, 300)

\* the --preset flag of the run names no preset
UnknownPresetGiven ==
    /\ libCall.args.preset.type = "string"
    /\ libCall.args.preset.text # ""
    /\ ~Contains(PresetKeys, toLowerCase(libCall.args.preset.text))

\* C30: in non-interactive mode an unknown preset name is fatal: the run exits
\* with code 1 after an error that names all valid presets, and config.json,
\* the linked Lua modules and init.lua are as they were before the run
C30_UnknownPresetFatal ==
    (libCall.fn = "main" /\ libCall.hammerspoon /\ UnknownPresetGiven) =>
        /\ libResult.exit = 1
        /\ libResult.errors =
               <<"Unknown preset: " \o libCall.args.preset.text
                     \o ". Available: aggressive, relaxed, zen">>
        /\ libResult.file = libCall.persisted
        /\ libResult.installed = libCall.installed

\* the configuration loadConfig makes of config.json as it is now
Persisted ==
    IF file.state = "ok" THEN MergeDefaults(defaults, file.doc) ELSE defaults

\* the engine holds what config.json says
HoldsPersisted == config = Persisted

\* C31: whenever config.json changes, the engine is eventually reloaded and then
\* holds the new configuration, in every state reachable by start, stop, toggle
\* and earlier reloads, also after a reload that loaded enabled = false.  What
\* reloads the engine is the callback of its path watcher, so in every state a
\* change of config.json that the engine has not loaded is held by a running
\* path watcher
C31_ChangeIsReloaded ==
    ~HoldsPersisted => (configWatcher > 0 /\ fileChanged)


\* C32: a deactivated focus event sets currentApp to none only when its
\* application is the tracked one, and leaves currentApp as it is for any other
\* application; in both cases the count, the timer and every other local stay
\* and nothing is sent; and while currentApp is none every key event is rejected
C32_DeactivatedFrame ==
    /\ \A appName \in FocusApps :
           LET after == handleAppEvent(Engine, appName, "deactivated")
           IN  /\ after.currentApp = IF appName = currentApp THEN None ELSE currentApp
               /\ after = [Engine EXCEPT !.currentApp = after.currentApp]
    /\ currentApp = None =>
           \A flags \in KeyFlags, keyCode \in KeyCodes :
               LET after == handleKeystroke(Engine, flags, keyCode)
               IN  /\ Untouched(Engine, after)
                   /\ after.emitted = <<Return(FALSE)>>

\* the tracked application was deactivated while keys were counted: currentApp
\* is none, and the count and its timer are still there
C32_Witness ==
    /\ isMonitoring
    /\ currentApp = None
    /\ frontApp = None
    /\ pendingFocus = {}
    /\ emitted = <<>>
    /\ keystrokeCount > 0
    /\ inactivityTimer = "pending"


\* C33: a category id that is not in the registry is rejected with no change of
\* state: the engine's toggleCategory, enableCategory and disableCategory return
\* false and leave the configuration, config.json and the monitored-app list as
\* they were, and the CLI's --enable-category and --disable-category exit with
\* code 1 and leave config.json as it was
C33_UnknownCategoryRejected ==
    /\ \A categoryId \in CategoryArgs \ DOMAIN CATEGORIES :
           \A written \in BOOLEAN, order \in CategoryOrders :
               \A after \in {toggleCategory(Engine, categoryId, written, order),
                             enableCategory(Engine, categoryId, written, order),
                             disableCategory(Engine, categoryId, written, order)} :
                   /\ Untouched(Engine, after)
                   /\ after.emitted[Len(after.emitted)] = Return(FALSE)
    /\ (libCall # NoCall /\ libCall.fn = "toggleCategory"
            /\ libCall.categoryId \notin DOMAIN CATEGORIES_json) =>
           /\ libResult.exit = 1
           /\ libResult.file = libCall.persisted

\* C34: POST /api/config with a body that is not parseable JSON answers 400 with
\* an error, leaves config.json as it was and does not reload Hammerspoon; with
\* a parseable body config.json becomes the posted document, whatever it held,
\* and the answer is 200 {success: true}
C34_PostConfig ==
    (libCall.fn = "POST /api/config") =>
        IF libCall.body.kind = "json"
        THEN /\ libResult.status = 200
             /\ libResult.answer = SuccessAnswer
             /\ libResult.file = Document(libCall.body.value)
        ELSE /\ libResult.status = 400
             /\ Get(libResult.answer, "error") # JsUndefined
             /\ libResult.file = libCall.persisted
             /\ ~libResult.reloaded

\* a body that does not parse was posted over a config.json that holds a document
C34_Witness ==
    /\ libCall.fn = "POST /api/config"
    /\ libCall.body = Unparseable
    /\ libCall.persisted.kind = "json"
    /\ libResult.status = 400

\* the custom-app list a configuration holds, empty when it holds none
CustomAppList(cfg) == CustomAppsOf(cfg).apps

\* the value the handler returned to its caller
ReturnValue(after) == after.emitted[Len(after.emitted)]

\* C35: the custom-app list is duplicate-free; addCustomApp returns false and
\* changes nothing for no name, the empty name or a name in the list, and
\* otherwise appends the name; removeCustomApp returns false and changes
\* nothing for a name not in the list, and otherwise removes it and keeps the
\* order of the rest; adding a new name and removing it gives the list back
C35_CustomAppList ==
    LET list == CustomAppList(config)
    IN  /\ \A i, j \in 1..Len(list) : list[i] = list[j] => i = j
        /\ \A appName \in AppArgs, written \in BOOLEAN, order \in CategoryOrders :
               LET added == addCustomApp(Engine, appName, written, order)
                   removed == removeCustomApp(Engine, appName, written, order)
                   back == removeCustomApp(added, appName, written, order)
               IN  /\ IF appName \in {None, ""} \/ Contains(list, appName)
                      THEN Untouched(Engine, added) /\ ReturnValue(added) = Return(FALSE)
                      ELSE /\ CustomAppList(added.config) = Append(list, appName)
                           /\ ReturnValue(added) = Return(TRUE)
                           /\ CustomAppList(back.config) = list
                           /\ ReturnValue(back) = Return(TRUE)
                   /\ IF ~Contains(list, appName)
                      THEN Untouched(Engine, removed) /\ ReturnValue(removed) = Return(FALSE)
                      ELSE /\ CustomAppList(removed.config)
                                 = SelectSeq(list, LAMBDA app : app # appName)
                           /\ ReturnValue(removed) = Return(TRUE)

\* a name was added to a list that held another one
C35_Witness ==
    /\ CustomAppList(config) = <<"Safari", "Code">>
    /\ emitted # <<>>
    /\ emitted[Len(emitted)] = Return(TRUE)

\* a configuration the CLI or the settings UI can persist: categories of the
\* registry, each enabled or disabled, and a custom-app list, enabled or disabled
Persistable(cfg) ==
    /\ cfg.categories.type = "object"
    /\ \A i \in 1..Len(cfg.categories.entries) :
           LET category == cfg.categories.entries[i]
           IN  /\ category.id \in DOMAIN CATEGORIES_json
               /\ category.entry.type = "object"
               /\ category.entry.enabled \in {"true", "false"}
    /\ cfg.customApps.type = "object"
    /\ cfg.customApps.enabled \in {"true", "false"}
    /\ cfg.customApps.apps.type = "array"

\* the ids of config.categories, in the order of its keys
CategoryIdsOf(cfg) ==
    [i \in 1..Len(cfg.categories.entries) |-> cfg.categories.entries[i].id]

\* the Lua table hs.json.decode makes of a persistable configuration
DecodedTable(cfg) ==
    [categories |->
        [categoryId \in Members(CategoryIdsOf(cfg)) |->
            LET i == CHOOSE k \in 1..Len(cfg.categories.entries) :
                         cfg.categories.entries[k].id = categoryId
            IN  [enabled |-> cfg.categories.entries[i].entry.enabled = "true"]],
     customApps |-> [enabled |-> cfg.customApps.enabled = "true",
                     apps |-> cfg.customApps.apps.items]]

\* C36: for every configuration the CLI or the settings UI can persist, the
\* monitored-app list the engine builds has the same members as
\* getEnabledApps(config) of the configuration library
C36_EngineMirrorsLibrary ==
    (libCall.fn = "getEnabledApps" /\ Persistable(libCall.config)) =>
        /\ ~libResult.threw
        /\ Members(buildMonitoredAppsList(DecodedTable(libCall.config),
                                          CategoryIdsOf(libCall.config)))
               = Members(libResult.value)

\* C37: between handlers a count other than zero means that the engine is
\* running and that its inactivity timer is pending; a stopped engine has
\* count zero and no pending timer
C37_CountOnlyWhileRunning ==
    /\ keystrokeCount # 0 => (isMonitoring /\ inactivityTimer = "pending")
    /\ ~isMonitoring => (keystrokeCount = 0 /\ PendingTimersOf(Engine) = 0)

\* keystrokes were counted and the handler that counted the last one has returned
C37_Witness ==
    /\ keystrokeCount > 0
    /\ isMonitoring
    /\ inactivityTimer = "pending"
    /\ emitted # <<>>
    /\ emitted[Len(emitted)] = Return(FALSE)

\* C38: between handlers the count is below the threshold of the configuration
\* the engine holds, for every configuration it can load and whatever reload
\* and configure make of the threshold
C38_CountBelowThreshold == keystrokeCount < config.threshold

\* C39: between the public operations the key event tap, the application
\* watcher and the path watcher of config.json are all active when isMonitoring
\* is true and none of them is when it is false, and there is never more than
\* one of each
C39_SubscriptionsFollowRunFlag ==
    /\ eventTap \in {0, 1} /\ appWatcher \in {0, 1} /\ configWatcher \in {0, 1}
    /\ isMonitoring <=> eventTap = 1
    /\ isMonitoring <=> appWatcher = 1
    /\ isMonitoring <=> configWatcher = 1

\* the path watcher's callback has reloaded a running engine
C39_Witness ==
    /\ isMonitoring
    /\ eventTap = 1 /\ appWatcher = 1 /\ configWatcher = 1
    /\ \E i \in 1..Len(emitted) : emitted[i] = Log("Config changed, reloading...")

\* a count given to the menu bar: by a notification, or by its own start
IsGivenCount(e) == e.kind \in {"count", "title"}

\* the locals each handler that can change the count leaves when it runs now
CountRuns ==
    {handleKeystroke(Engine, flags, keyCode) : flags \in KeyFlags, keyCode \in KeyCodes}
        \cup {handleAppEvent(Engine, appName, eventType) :
                 appName \in FocusApps, eventType \in {"activated", "deactivated"}}
        \cup {reset(Engine), stop(Engine)}
        \cup (IF inactivityTimer = "pending" THEN {timerFired(Engine, "held")} ELSE {})

\* with a listener registered, a handler that changes the count notifies, and
\* the last notification of a handler carries the count the handler leaves
ChangeIsNotified ==
    onCountUpdate =>
        \A after \in CountRuns :
            LET notified == SelectSeq(after.emitted, IsGivenCount)
            IN  /\ after.keystrokeCount # keystrokeCount => notified # <<>>
                /\ notified # <<>> =>
                       notified[Len(notified)] = CountUpdate(after.keystrokeCount)

\* the listener is registered exactly while the one menu bar item exists;
\* stop leaves no item and no listener, start and a second start leave one item
OneItemWithListener ==
    /\ menuBar \in {0, 1}
    /\ onCountUpdate <=> menuBar = 1
    /\ menuStart(Menu).menuBar = 1
    /\ menuStart([menuStart(Menu) EXCEPT !.emitted = <<>>]).menuBar = 1
    /\ ~menuStop(Menu).onCountUpdate /\ menuStop(Menu).menuBar = 0

\* the counts the last handler gave the menu bar
GivenCounts == SelectSeq(emitted, IsGivenCount)

\* C40 as stated: while a count listener is registered, every change of the
\* count is notified in the same handler with the new count, and between
\* handlers the count the menu bar was last given is the engine's count;
\* stopping the menu bar removes the listener and starting it twice leaves one
\* menu bar item
C40_AsStated ==
    /\ ChangeIsNotified
    /\ OneItemWithListener
    /\ (onCountUpdate /\ GivenCounts # <<>>) => GivenCounts[Len(GivenCounts)].count = keystrokeCount

\* C40 amended: as C40, but the menu bar's start gives the item the count 0
\* whatever the engine's count is, so a menu bar started while the count is not
\* 0 holds 0 until the count next changes; the count a notification gave it is
\* the engine's count
C40_MenuFollowsCount ==
    /\ ChangeIsNotified
    /\ OneItemWithListener
    /\ (onCountUpdate /\ GivenCounts # <<>>) =>
           IF GivenCounts[Len(GivenCounts)].kind = "title"
           THEN GivenCounts[Len(GivenCounts)] = SetTitle(0)
           ELSE GivenCounts[Len(GivenCounts)].count = keystrokeCount

\* the menu bar was started twice, and a key counted after that was notified
C40_Witness ==
    /\ onCountUpdate
    /\ menuBar = 1
    /\ keystrokeCount >= 1
    /\ emitted = <<CountUpdate(keystrokeCount), Return(FALSE)>>
====
